---- MODULE Spec2Model ----
(***************************************************************************)
(* Autonomous operations platform (Indus-12): circuit breaker,             *)
(* idempotency registry, incident manager, health scorer / safe mode.      *)
(* Every subsystem is modelled from its source; the subsystems share one   *)
(* clock and are explored by one specification each.                       *)
(***************************************************************************)
EXTENDS Integers, Sequences, FiniteSets, TLC

VARIABLES
    now,            \* Date.now() / NOW(), in model time units
    cb,             \* CircuitBreaker fields: state, failureCount, successCount, lastStateChange
    cbCalls,        \* per caller of CircuitBreaker.call: "idle" or "infn" (awaiting fn())
    cbLast,         \* history: the last breaker event and an alternating bit
    closedFailures, \* history: failures completed in CLOSED since CLOSED was entered
    failStreak,     \* history: failures completed since the last completed success
    probeStreak,    \* history: successes in HALF_OPEN since it was entered / since a failure
    idemRows,       \* table idempotency_keys, by id
    idemProc,       \* per caller of IdempotencyRegistry.execute: where it is, what it holds
    fnCalls,        \* history: invocations of fn so far
    fnFailures,     \* history: invocations of fn that threw
    incidents,      \* table incidents: the sequence of rows, the id is the index
    incProc,        \* per caller of the incident manager: where it is, what it holds
    incOps,         \* history: incident-manager entry calls made so far
    incCycle,       \* history: per caller, the open incidents whose invariant its last
                    \* runAll() found auto-corrected
    alerts,         \* alertWebhook calls made so far, as a set of {severity, kind}
    systemMode,     \* the singleton row of table system_mode
    lastHealth,     \* the newest row of table health_scores (NULL: none yet)
    hc,             \* the caller of HealthScoreEngine.compute: where it is, what it holds
    dis,            \* the caller of disableSafeMode: where it is, what it holds
    gate,           \* the last request through safeModeMiddleware and its answer
    dl,             \* the caller of withDeadlockRetry: where it is, what it holds
    nr,             \* the caller of withNetworkRetry: where it is, what it holds
    retryMetrics,   \* counters db.deadlock_retry.count and db.deadlock_retry.exhausted
    rlWindows,      \* RateLimiterStore.windows, by key
    rlLast,         \* the last record() call: its key, what it returned, the calls so far
    rlHist,         \* history: per key, the times record() appended to its window
    rlBreach,       \* history: per key, the time of the last call that set blocked (-1: none)
    dg,             \* the caller of runDeploymentGates: where it is, what it holds
    dgLog,          \* table deployment_gates: the sequence of rows
    rb,             \* AutoRollbackWatcher fields, and the calls of rollbackFn so far
    rbChk,          \* the check() calls in flight: where each is, what it holds
    rbObs,          \* history: per check so far, whether it found a spike
    auditLog,       \* table "AuditLog": the committed rows in createdAt order
    auditTx,        \* per transaction inserting an audit row: the row the trigger prepared
    auditSeq,       \* the audit rows begun so far (names the id and the createdAt)
    auditTampered,  \* history: a row was rewritten from outside the application
    auditVerdict,   \* the last verifyAuditChain() call: the rows it read and its result
    auditIncidents, \* the incidents verifyAuditChain() created
    cron,           \* CronScheduler.jobs by name, with the runs in flight and the error counter
    cronOn,         \* the timers of start() are armed
    driftCall,      \* the last computeDriftScore() call: its result list and the score returned
    hsSample,       \* the row compute() inserts into health_scores, with what the scorers read
    bvRows,         \* table backup_validations: the sequence of rows, the id is the index
    bv,             \* the runBackupValidation() call: where it is, what it holds, the alerts it sent
    bf,             \* BruteForceDetector.entries for the one key of the model (NoBfEntry: absent)
    bfLast,         \* the last recordFailure / recordSuccess call and what it returned
    bfHist,         \* history: the times of the recordFailure calls made outside a lock since the last recordSuccess
    bfLockAt,       \* history: when the lock in force was engaged (-1: none since the last recordSuccess)
    bfCalls,        \* history: the calls made so far
    pl,             \* the request in the preHandler chain: where it is, the gates it went through, its answer
    plWindows,      \* rateLimiter.windows as the chain sees it
    plBlocks,       \* the targets with an active row in security_blocks
    plSafe,         \* system_mode.safe_mode as the chain sees it
    plCount,        \* history: the requests so far
    eng,            \* InvariantEngine.runAll() in flight: where it is, the results so far, the rows it persisted
    driftRow,       \* the newest row of table drift_scores (NULL: none yet)
    engCycles,      \* history: the runAll() calls begun so far
    ovCall          \* the last predictOverloadRisk() call: its signals and what it returned

cbVars == <<cb, cbCalls, cbLast, closedFailures, failStreak, probeStreak>>

idemVars == <<idemRows, idemProc, fnCalls, fnFailures>>

incVars == <<incidents, incProc, incOps, incCycle>>

safeVars == <<systemMode, lastHealth, hc, dis, gate>>

retryVars == <<dl, nr, retryMetrics>>

\* the variables of the subsystems that follow safe mode
rlVars == <<rlWindows, rlLast, rlHist, rlBreach>>

dgVars == <<dg, dgLog>>

rbVars == <<rb, rbChk, rbObs>>

\* the audit log
auVars == <<auditLog, auditTx, auditSeq, auditTampered, auditVerdict, auditIncidents>>

cronVars == <<cron, cronOn>>

driftVars == <<driftCall>>

hsVars == <<hsSample>>

bvVars == <<bvRows, bv>>

bfVars == <<bf, bfLast, bfHist, bfLockAt, bfCalls>>

plVars == <<pl, plWindows, plBlocks, plSafe, plCount>>

engVars == <<eng, driftRow, engCycles>>

ovVars == <<ovCall>>

lateVars == <<auVars, cronVars, driftVars, hsVars, bvVars, bfVars, plVars, engVars, ovVars>>

moreVars == <<retryVars, rlVars, dgVars, rbVars, lateVars>>

\* what the actions of one subsystem leave alone, the clock aside
earlyVars == <<cbVars, idemVars, incVars, alerts, safeVars, retryVars, rlVars, dgVars, rbVars>>

auRest == <<earlyVars, cronVars, driftVars, hsVars, bvVars, bfVars, plVars, engVars, ovVars>>

cronRest == <<earlyVars, auVars, driftVars, hsVars, bvVars, bfVars, plVars, engVars, ovVars>>

driftRest == <<earlyVars, auVars, cronVars, hsVars, bvVars, bfVars, plVars, engVars, ovVars>>

hsRest == <<earlyVars, auVars, cronVars, driftVars, bvVars, bfVars, plVars, engVars, ovVars>>

bvRest == <<earlyVars, auVars, cronVars, driftVars, hsVars, bfVars, plVars, engVars, ovVars>>

bfRest == <<earlyVars, auVars, cronVars, driftVars, hsVars, bvVars, plVars, engVars, ovVars>>

plRest == <<earlyVars, auVars, cronVars, driftVars, hsVars, bvVars, bfVars, engVars, ovVars>>

engRest == <<earlyVars, auVars, cronVars, driftVars, hsVars, bvVars, bfVars, plVars, ovVars>>

ovRest == <<earlyVars, auVars, cronVars, driftVars, hsVars, bvVars, bfVars, plVars, engVars>>

vars == <<now, cbVars, idemVars, incVars, alerts, safeVars, moreVars>>

\* SQL NULL / undefined, and a column or field holding v
NULL   == <<>>
Val(v) == <<v>>

Min(a, b) == IF a <= b THEN a ELSE b
Max(a, b) == IF a >= b THEN a ELSE b

(***************************************************************************)
(* CIRCUIT BREAKER                                                         *)
(***************************************************************************)
\* constructor defaults; one time unit of the breaker's clock is 15 s
failureThreshold == 5
resetTimeoutMs   == 2
halfOpenProbes   == 2

MaxCbCallers == 2
MaxCbTime    == 6

CbCallers == 1..MaxCbCallers

CircuitState == {"CLOSED", "OPEN", "HALF_OPEN"}

\* field initialisers of class CircuitBreaker
CbNew == [state |-> "CLOSED", failureCount |-> 0, successCount |-> 0,
          lastStateChange |-> 0]

\* transitionTo(state): state and lastStateChange
transitionTo(b, state, t) == [b EXCEPT !.state = state, !.lastStateChange = t]

\* call() up to the await of fn(): whether it throws the breaker-open error,
\* and the breaker as it leaves it
call_ge(b, t) ==
    IF b.state = "OPEN"
    THEN IF t - b.lastStateChange >= resetTimeoutMs
         THEN [rejected |-> FALSE, b |-> transitionTo(b, "HALF_OPEN", t)]
         ELSE [rejected |-> TRUE, b |-> b]
    ELSE [rejected |-> FALSE, b |-> b]

call(b, t) ==
    IF b.state = "OPEN"
    THEN IF t - b.lastStateChange > resetTimeoutMs
         THEN [rejected |-> FALSE, b |-> transitionTo(b, "HALF_OPEN", t)]
         ELSE [rejected |-> TRUE, b |-> b]
    ELSE [rejected |-> FALSE, b |-> b]

onSuccess(b, t) ==
    LET b1 == [b EXCEPT !.failureCount = 0] IN
    IF b1.state = "HALF_OPEN"
    THEN LET b2 == [b1 EXCEPT !.successCount = b1.successCount + 1] IN
         IF b2.successCount >= halfOpenProbes
         THEN [transitionTo(b2, "CLOSED", t) EXCEPT !.successCount = 0]
         ELSE b2
    ELSE b1

onFailure_gt(b, t) ==
    LET b1 == [b EXCEPT !.failureCount = b.failureCount + 1] IN
    IF b1.failureCount > failureThreshold
    THEN transitionTo(b1, "OPEN", t)
    ELSE b1

onFailure(b, t) ==
    LET b1 == [b EXCEPT !.failureCount = b.failureCount + 1] IN
    IF b1.failureCount >= failureThreshold
    THEN transitionTo(b1, "OPEN", t)
    ELSE b1

Flip(kind) == [kind |-> kind, flip |-> 1 - cbLast.flip]

\* call(fn) while OPEN inside the reset timeout: throws, fn is not called
CbCallRejected(c) ==
    /\ cbCalls[c] = "idle"
    /\ call(cb, now).rejected
    /\ cbLast' = Flip("rejected")
    /\ UNCHANGED <<now, cb, cbCalls, closedFailures, failStreak, probeStreak, idemVars, incVars, alerts, safeVars, moreVars>>

\* call(fn) up to the await of fn()
CbCallForwarded(c) ==
    /\ cbCalls[c] = "idle"
    /\ ~call(cb, now).rejected
    /\ cb' = call(cb, now).b
    /\ cbCalls' = [cbCalls EXCEPT ![c] = "infn"]
    /\ cbLast' = Flip("forwarded")
    /\ probeStreak' = IF cb.state # "HALF_OPEN" /\ cb'.state = "HALF_OPEN"
                      THEN 0 ELSE probeStreak
    /\ UNCHANGED <<now, closedFailures, failStreak, idemVars, incVars, alerts, safeVars, moreVars>>

\* fn() resolved: onSuccess(), the result is returned
CbFnSuccess(c) ==
    /\ cbCalls[c] = "infn"
    /\ cb' = onSuccess(cb, now)
    /\ cbCalls' = [cbCalls EXCEPT ![c] = "idle"]
    /\ cbLast' = Flip("success")
    /\ failStreak' = 0
    /\ closedFailures' = IF cb'.state = "CLOSED" /\ cb.state = "CLOSED"
                         THEN closedFailures ELSE 0
    /\ probeStreak' = IF cb.state = "HALF_OPEN"
                      THEN Min(probeStreak + 1, halfOpenProbes) ELSE probeStreak
    /\ UNCHANGED <<now, idemVars, incVars, alerts, safeVars, moreVars>>

\* fn() rejected: onFailure(), the error is rethrown
CbFnFailure(c) ==
    /\ cbCalls[c] = "infn"
    /\ cb' = onFailure(cb, now)
    /\ cbCalls' = [cbCalls EXCEPT ![c] = "idle"]
    /\ cbLast' = Flip("failure")
    /\ failStreak' = failStreak + 1
    /\ closedFailures' = IF cb.state = "CLOSED"
                         THEN Min(closedFailures + 1, failureThreshold) ELSE 0
    /\ probeStreak' = 0
    /\ UNCHANGED <<now, idemVars, incVars, alerts, safeVars, moreVars>>

CbTick ==
    /\ now < MaxCbTime
    /\ now' = now + 1
    /\ UNCHANGED <<cbVars, idemVars, incVars, alerts, safeVars, moreVars>>

CbInit ==
    /\ cb = CbNew
    /\ cbCalls = [c \in CbCallers |-> "idle"]
    /\ cbLast = [kind |-> "none", flip |-> 0]
    /\ closedFailures = 0
    /\ failStreak = 0
    /\ probeStreak = 0

CbNext ==
    \/ \E c \in CbCallers : CbCallRejected(c)
    \/ \E c \in CbCallers : CbCallForwarded(c)
    \/ \E c \in CbCallers : CbFnSuccess(c)
    \/ \E c \in CbCallers : CbFnFailure(c)
    \/ CbTick

(***************************************************************************)
(* IDEMPOTENCY REGISTRY                                                    *)
(***************************************************************************)
\* default TTL of execute(); one time unit of the registry's clock is 12 h
ttlSeconds == 2
\* the status code fn returns in the scenario
FnStatusCode == 201

MaxIdemCallers == 2
MaxIdemTime    == 3
MaxFnCalls     == 3

IdemCallers == 1..MaxIdemCallers
IdemKeys    == {"K1"}

\* registerTransaction: the key `dup:${businessKey}:${Date.now()}` it writes
\* at time t, for the business key of the model
DupKeyAt == <<"dup:B1:0", "dup:B1:1", "dup:B1:2", "dup:B1:3", "dup:B1:4", "dup:B1:5">>
DupKey(t) == DupKeyAt[t + 1]

\* the instants at which the model calls registerTransaction
RegisterTimes == {1}

\* the ids table idempotency_keys can hold
IdemRowKeys == IdemKeys \cup {DupKey(t) : t \in RegisterTimes}

\* a row of idempotency_keys; present = FALSE stands for no row with the id
NoRow == [present |-> FALSE, response_body |-> NULL, status_code |-> NULL,
          locked |-> FALSE, created_at |-> 0, expires_at |-> 0]

IdleProc == [pc |-> "idle", key |-> "K1", result |-> NULL, ret |-> NULL]

\* the SELECT without AND expires_at > NOW()
SelectLive_anyAge(rows, key, t) ==
    IF rows[key].present THEN <<rows[key]>> ELSE <<>>

\* SELECT response_body, status_code, locked FROM idempotency_keys
\* WHERE id = key AND expires_at > NOW()
SelectLive(rows, key, t) ==
    IF rows[key].present /\ rows[key].expires_at > t THEN <<rows[key]>> ELSE <<>>

\* INSERT (id, locked, locked_at, expires_at) VALUES (key, TRUE, NOW(), NOW() + ttl)
\* ON CONFLICT (id) DO NOTHING
InsertLocked(rows, key, t) ==
    IF rows[key].present
    THEN rows
    ELSE [rows EXCEPT ![key] =
            [present |-> TRUE, response_body |-> NULL, status_code |-> NULL,
             locked |-> TRUE, created_at |-> t, expires_at |-> t + ttlSeconds]]

\* the UPDATE without locked = FALSE
UpdateResult_keepLock(rows, key, res) ==
    IF rows[key].present
    THEN [rows EXCEPT ![key].response_body = Val(res.body),
                      ![key].status_code = Val(res.statusCode)]
    ELSE rows

\* UPDATE SET response_body, status_code, locked = FALSE WHERE id = key
UpdateResult(rows, key, res) ==
    IF rows[key].present
    THEN [rows EXCEPT ![key].response_body = Val(res.body),
                      ![key].status_code = Val(res.statusCode),
                      ![key].locked = FALSE]
    ELSE rows

\* the lock released by an UPDATE that keeps the row
DeleteKey_unlock(rows, key) == [rows EXCEPT ![key].locked = FALSE]

\* DELETE FROM idempotency_keys WHERE id = key
DeleteKey(rows, key) == [rows EXCEPT ![key] = NoRow]

\* DELETE FROM idempotency_keys WHERE expires_at < NOW()
DeleteExpired(rows, t) ==
    [k \in IdemRowKeys |->
        IF rows[k].present /\ rows[k].expires_at < t THEN NoRow ELSE rows[k]]

\* INSERT (id, response_body, status_code, expires_at)
\* VALUES (key, 'null'::JSONB, 200, NOW() + INTERVAL '5 minutes') ON CONFLICT DO NOTHING;
\* locked takes its default FALSE, the JSON null is written 0, and the 5 minutes
\* are rounded up to one unit of the registry's clock
InsertRegistered(rows, key, t) ==
    IF rows[key].present
    THEN rows
    ELSE [rows EXCEPT ![key] =
            [present |-> TRUE, response_body |-> Val(0), status_code |-> Val(200),
             locked |-> FALSE, created_at |-> t, expires_at |-> t + 1]]

\* execute(key, fn) is entered (also after a sleep: the recursive call)
ExecStart(c) ==
    /\ idemProc[c].pc \in {"idle", "done", "threw"}
    /\ fnCalls < MaxFnCalls
    /\ \E k \in IdemKeys :
         idemProc' = [idemProc EXCEPT ![c] = [IdleProc EXCEPT !.pc = "select", !.key = k]]
    /\ UNCHANGED <<now, cbVars, incVars, alerts, safeVars, moreVars, idemRows, fnCalls, fnFailures>>

\* the SELECT, and the branch on existing
ExecSelect(c) ==
    /\ idemProc[c].pc = "select"
    /\ LET existing == SelectLive(idemRows, idemProc[c].key, now) IN
       idemProc' = [idemProc EXCEPT ![c] =
          IF Len(existing) > 0
          THEN IF existing[1].locked
               THEN [@ EXCEPT !.pc = "sleep"]
               ELSE [@ EXCEPT !.pc = "done",
                              !.ret = Val([cached |-> TRUE,
                                           statusCode |-> existing[1].status_code,
                                           body |-> existing[1].response_body])]
          ELSE [@ EXCEPT !.pc = "insert"]]
    /\ UNCHANGED <<now, cbVars, incVars, alerts, safeVars, moreVars, idemRows, fnCalls, fnFailures>>

\* sleep(500) is over: return this.execute(key, fn, ttlSeconds)
ExecWake(c) ==
    /\ idemProc[c].pc = "sleep"
    /\ idemProc' = [idemProc EXCEPT ![c].pc = "select"]
    /\ UNCHANGED <<now, cbVars, incVars, alerts, safeVars, moreVars, idemRows, fnCalls, fnFailures>>

\* the INSERT .. ON CONFLICT DO NOTHING, then fn() is called
ExecInsert(c) ==
    /\ idemProc[c].pc = "insert"
    /\ idemRows' = InsertLocked(idemRows, idemProc[c].key, now)
    /\ fnCalls' = fnCalls + 1
    /\ idemProc' = [idemProc EXCEPT ![c].pc = "infn"]
    /\ UNCHANGED <<now, cbVars, incVars, alerts, safeVars, moreVars, fnFailures>>

\* fn() resolves with {statusCode, body}; the body names the invocation
ExecFnOk(c) ==
    /\ idemProc[c].pc = "infn"
    /\ idemProc' = [idemProc EXCEPT ![c].pc = "update",
                       ![c].result = Val([statusCode |-> FnStatusCode, body |-> fnCalls])]
    /\ UNCHANGED <<now, cbVars, incVars, alerts, safeVars, moreVars, idemRows, fnCalls, fnFailures>>

\* fn() rejects
ExecFnThrow(c) ==
    /\ idemProc[c].pc = "infn"
    /\ idemProc' = [idemProc EXCEPT ![c].pc = "delete"]
    /\ fnFailures' = fnFailures + 1
    /\ UNCHANGED <<now, cbVars, incVars, alerts, safeVars, moreVars, idemRows, fnCalls>>

\* the UPDATE, then return {cached: false, ...result}
ExecUpdate(c) ==
    /\ idemProc[c].pc = "update"
    /\ idemRows' = UpdateResult(idemRows, idemProc[c].key, idemProc[c].result[1])
    /\ idemProc' = [idemProc EXCEPT ![c].pc = "done",
                       ![c].ret = Val([cached |-> FALSE,
                                       statusCode |-> Val(idemProc[c].result[1].statusCode),
                                       body |-> Val(idemProc[c].result[1].body)])]
    /\ UNCHANGED <<now, cbVars, incVars, alerts, safeVars, moreVars, fnCalls, fnFailures>>

\* the catch: DELETE the row, rethrow
ExecDelete(c) ==
    /\ idemProc[c].pc = "delete"
    /\ idemRows' = DeleteKey(idemRows, idemProc[c].key)
    /\ idemProc' = [idemProc EXCEPT ![c].pc = "threw"]
    /\ UNCHANGED <<now, cbVars, incVars, alerts, safeVars, moreVars, fnCalls, fnFailures>>

\* registerTransaction(businessKey)
IdemRegister ==
    /\ now \in RegisterTimes
    /\ idemRows' = InsertRegistered(idemRows, DupKey(now), now)
    /\ idemRows' # idemRows
    /\ UNCHANGED <<now, cbVars, incVars, alerts, safeVars, moreVars, idemProc, fnCalls, fnFailures>>

\* cleanup(), the hourly job
IdemCleanup ==
    /\ idemRows' = DeleteExpired(idemRows, now)
    /\ idemRows' # idemRows
    /\ UNCHANGED <<now, cbVars, incVars, alerts, safeVars, moreVars, idemProc, fnCalls, fnFailures>>

IdemTick ==
    /\ now < MaxIdemTime
    /\ now' = now + 1
    /\ UNCHANGED <<cbVars, idemVars, incVars, alerts, safeVars, moreVars>>

IdemInit ==
    /\ idemRows = [k \in IdemRowKeys |-> NoRow]
    /\ idemProc = [c \in IdemCallers |-> IdleProc]
    /\ fnCalls = 0
    /\ fnFailures = 0

IdemNext ==
    \/ \E c \in IdemCallers : ExecStart(c)
    \/ \E c \in IdemCallers : ExecSelect(c)
    \/ \E c \in IdemCallers : ExecWake(c)
    \/ \E c \in IdemCallers : ExecInsert(c)
    \/ \E c \in IdemCallers : ExecFnOk(c)
    \/ \E c \in IdemCallers : ExecFnThrow(c)
    \/ \E c \in IdemCallers : ExecUpdate(c)
    \/ \E c \in IdemCallers : ExecDelete(c)
    \/ IdemRegister
    \/ IdemCleanup
    \/ IdemTick

\* one caller at a time: every execute returns before the next is made
SoloCaller == CHOOSE c \in IdemCallers : TRUE

IdemSoloNext ==
    \/ ExecStart(SoloCaller)
    \/ ExecSelect(SoloCaller)
    \/ ExecInsert(SoloCaller)
    \/ ExecFnOk(SoloCaller)
    \/ ExecFnThrow(SoloCaller)
    \/ ExecUpdate(SoloCaller)
    \/ ExecDelete(SoloCaller)
    \/ IdemCleanup
    \/ IdemTick

(***************************************************************************)
(* INCIDENT MANAGER                                                        *)
(***************************************************************************)
MAX_AUTO_HEAL_ATTEMPTS == 3
\* 15 min, which is one time unit of the incident clock
ESCALATE_AFTER_MS == 1

MaxIncOps == 3
\* the clock only has to pass the escalation age
MaxIncTime == ESCALATE_AFTER_MS + 1

\* the callers that run concurrently: the scheduler's invariant-check job and
\* a second caller (the backup validator's drift scan, an operator)
IncProcs == {"cron", "other"}

IncidentStatus == {"OPEN", "AUTO_HEALING", "ESCALATED", "RESOLVED", "CLOSED"}

\* the order of the enum incident_status
StatusRank(st) ==
    CASE st = "OPEN"         -> 0
      [] st = "AUTO_HEALING" -> 1
      [] st = "ESCALATED"    -> 2
      [] st = "RESOLVED"     -> 3
      [] st = "CLOSED"       -> 4

\* the catalogue entries the model runs: name, priority, safeToAutoCorrect
INVARIANTS ==
    << [name |-> "NO_NEGATIVE_STOCK", priority |-> "P1", safeToAutoCorrect |-> FALSE],
       [name |-> "NO_ORPHANED_SALE_ITEMS", priority |-> "P3", safeToAutoCorrect |-> TRUE] >>

\* the results one check of runAll() can produce for a catalogue entry
ResultsOf(inv) ==
    { [name |-> inv.name, priority |-> inv.priority, passed |-> TRUE, autoCorrected |-> FALSE],
      [name |-> inv.name, priority |-> inv.priority, passed |-> FALSE, autoCorrected |-> FALSE] }
    \cup (IF inv.safeToAutoCorrect
          THEN {[name |-> inv.name, priority |-> inv.priority,
                 passed |-> TRUE, autoCorrected |-> TRUE]}
          ELSE {})

\* the results a direct caller of createOrUpdateFromInvariant can pass
AnyResult ==
    UNION {{[name |-> INVARIANTS[i].name, priority |-> INVARIANTS[i].priority,
             passed |-> TRUE, autoCorrected |-> TRUE],
            [name |-> INVARIANTS[i].name, priority |-> INVARIANTS[i].priority,
             passed |-> TRUE, autoCorrected |-> FALSE],
            [name |-> INVARIANTS[i].name, priority |-> INVARIANTS[i].priority,
             passed |-> FALSE, autoCorrected |-> FALSE]}
           : i \in 1..Len(INVARIANTS)}

RECURSIVE Filter(_, _)
Filter(seq, keep) ==
    IF seq = <<>> THEN <<>>
    ELSE IF keep[1] THEN <<Head(seq)>> \o Filter(Tail(seq), Tail(keep))
         ELSE Filter(Tail(seq), Tail(keep))

\* results.filter(r => !r.passed)
Failed(results) == Filter(results, [i \in 1..Len(results) |-> ~results[i].passed])

Severity(priority) ==
    CASE priority = "P1" -> "CRITICAL"
      [] priority = "P2" -> "HIGH"
      [] priority = "P3" -> "MEDIUM"
      [] OTHER           -> "LOW"

IncIdle == [pc |-> "idle", pending |-> <<>>, res |-> NULL, id |-> 0, reason |-> ""]

\* the end of an incident-manager call: the next failed result of the cycle,
\* or the caller is done
IncReturn(pr) ==
    IF pr.pending = <<>>
    THEN IncIdle
    ELSE [IncIdle EXCEPT !.pc = "cou_select", !.res = Val(Head(pr.pending)),
                         !.pending = Tail(pr.pending)]

\* SELECT * FROM incidents WHERE invariant = name
\* AND status NOT IN ('RESOLVED','CLOSED') ORDER BY created_at DESC LIMIT 1
SelectOpenFor(incs, name) ==
    LET open == {i \in 1..Len(incs) :
                    incs[i].invariant = name /\ incs[i].status \notin {"RESOLVED", "CLOSED"}}
    IN {i \in open : \A j \in open : incs[j].created_at <= incs[i].created_at}

\* INSERT INTO incidents (priority, title, invariant, details, forensic_snapshot)
NewIncident(priority, name, t) ==
    [priority |-> priority, status |-> "OPEN", invariant |-> name,
     auto_heal_attempts |-> 0, auto_healed |-> FALSE, resolved_reason |-> NULL,
     created_at |-> t, resolved_at |-> NULL, escalated_at |-> NULL]

\* the UPDATE of autoResolve
autoResolve(incs, id, reason, t) ==
    IF id \in 1..Len(incs) /\ incs[id].status \notin {"RESOLVED", "CLOSED"}
    THEN [incs EXCEPT ![id].status = "RESOLVED", ![id].resolved_reason = Val(reason),
                      ![id].resolved_at = Val(t), ![id].auto_healed = TRUE]
    ELSE incs

\* the UPDATE of incrementHealAttempts
incrementHealAttempts(incs, id, t) ==
    IF id \in 1..Len(incs)
    THEN [incs EXCEPT ![id].auto_heal_attempts = @ + 1, ![id].status = "AUTO_HEALING"]
    ELSE incs

\* the condition of incrementHealAttempts, were the attempts compared with >
shouldEscalate_gt(row, t) ==
    row.auto_heal_attempts > MAX_AUTO_HEAL_ATTEMPTS
        \/ t - row.created_at > ESCALATE_AFTER_MS

\* the condition under which incrementHealAttempts calls escalate
shouldEscalate(row, t) ==
    row.auto_heal_attempts >= MAX_AUTO_HEAL_ATTEMPTS
        \/ t - row.created_at > ESCALATE_AFTER_MS

\* the guard of escalate: TRUE when it returns without the UPDATE
escalateSkips(incs, id) ==
    ~(id \in 1..Len(incs)) \/ incs[id].status = "ESCALATED"

\* the UPDATE of escalate
escalate(incs, id, t) ==
    IF id \in 1..Len(incs)
    THEN [incs EXCEPT ![id].status = "ESCALATED", ![id].escalated_at = Val(t)]
    ELSE incs

IncCanStart(p) == incProc[p].pc = "idle" /\ incOps < MaxIncOps

\* InvariantEngine.runAll(): the checks, then the failed results go to
\* createOrUpdateFromInvariant one after the other
IncRunAll(p) ==
    /\ IncCanStart(p)
    /\ \E r1 \in ResultsOf(INVARIANTS[1]), r2 \in ResultsOf(INVARIANTS[2]) :
         /\ incProc' = [incProc EXCEPT ![p] =
                           IncReturn([IncIdle EXCEPT !.pending = Failed(<<r1, r2>>)])]
         /\ incCycle' = [incCycle EXCEPT ![p] =
                           {i \in 1..Len(incidents) :
                              /\ incidents[i].status \in {"OPEN", "AUTO_HEALING"}
                              /\ \E r \in {r1, r2} : /\ r.name = incidents[i].invariant
                                                     /\ r.passed
                                                     /\ r.autoCorrected}]
    /\ incOps' = incOps + 1
    /\ UNCHANGED <<now, cbVars, idemVars, incidents, alerts, safeVars, moreVars>>

\* createOrUpdateFromInvariant(result, priority) called directly
IncCallCreateOrUpdate(p) ==
    /\ IncCanStart(p)
    /\ \E r \in AnyResult :
         incProc' = [incProc EXCEPT ![p] = IncReturn([IncIdle EXCEPT !.pending = <<r>>])]
    /\ incOps' = incOps + 1
    /\ UNCHANGED <<now, cbVars, idemVars, incCycle, incidents, alerts, safeVars, moreVars>>

\* escalate(id, reason), autoResolve(id, reason) or
\* incrementHealAttempts(id, result) called directly on an incident
IncCallDirect(p) ==
    /\ IncCanStart(p)
    /\ \E id \in 1..Len(incidents), op \in {"esc_select", "resolve", "inc_update"} :
         incProc' = [incProc EXCEPT ![p] =
                        [IncIdle EXCEPT !.pc = op, !.id = id, !.reason = "manual"]]
    /\ incOps' = incOps + 1
    /\ UNCHANGED <<now, cbVars, idemVars, incCycle, incidents, alerts, safeVars, moreVars>>

\* createOrUpdateFromInvariant: the SELECT of the open incident and the branch
IncCouSelect(p) ==
    /\ incProc[p].pc = "cou_select"
    /\ LET r        == incProc[p].res[1]
           existing == SelectOpenFor(incidents, r.name)
       IN IF existing # {}
          THEN \E i \in existing :
                 incProc' = [incProc EXCEPT ![p] =
                    IF r.passed /\ r.autoCorrected
                    THEN [@ EXCEPT !.pc = "resolve", !.id = i,
                                   !.reason = "Auto-corrected by invariant engine"]
                    ELSE IF ~r.passed
                         THEN [@ EXCEPT !.pc = "inc_update", !.id = i]
                         ELSE IncReturn(@)]
          ELSE incProc' = [incProc EXCEPT ![p] =
                    IF ~r.passed THEN [@ EXCEPT !.pc = "create"] ELSE IncReturn(@)]
    /\ UNCHANGED <<now, cbVars, idemVars, incCycle, incidents, incOps, alerts, safeVars, moreVars>>

\* createIncident: the INSERT and the alert
IncCreate(p) ==
    /\ incProc[p].pc = "create"
    /\ LET r == incProc[p].res[1] IN
         /\ incidents' = Append(incidents, NewIncident(r.priority, r.name, now))
         /\ alerts' = alerts \cup {[severity |-> Severity(r.priority), kind |-> "incident"]}
    /\ incProc' = [incProc EXCEPT ![p] = IncReturn(@)]
    /\ UNCHANGED <<now, cbVars, idemVars, incCycle, incOps, safeVars, moreVars>>

\* autoResolve: the UPDATE
IncResolve(p) ==
    /\ incProc[p].pc = "resolve"
    /\ incidents' = autoResolve(incidents, incProc[p].id, incProc[p].reason, now)
    /\ incProc' = [incProc EXCEPT ![p] = IncReturn(@)]
    /\ UNCHANGED <<now, cbVars, idemVars, incCycle, incOps, alerts, safeVars, moreVars>>

\* incrementHealAttempts: the UPDATE
IncHealUpdate(p) ==
    /\ incProc[p].pc = "inc_update"
    /\ incidents' = incrementHealAttempts(incidents, incProc[p].id, now)
    /\ incProc' = [incProc EXCEPT ![p].pc = "inc_select"]
    /\ UNCHANGED <<now, cbVars, idemVars, incCycle, incOps, alerts, safeVars, moreVars>>

\* incrementHealAttempts: the SELECT of attempts and created_at, and the test
IncHealSelect(p) ==
    /\ incProc[p].pc = "inc_select"
    /\ incProc' = [incProc EXCEPT ![p] =
          IF ~(@.id \in 1..Len(incidents)) THEN IncReturn(@)
          ELSE IF shouldEscalate(incidents[@.id], now)
               THEN [@ EXCEPT !.pc = "esc_select"]
               ELSE IncReturn(@)]
    /\ UNCHANGED <<now, cbVars, idemVars, incCycle, incidents, incOps, alerts, safeVars, moreVars>>

\* escalate: the SELECT and the early return
IncEscSelect(p) ==
    /\ incProc[p].pc = "esc_select"
    /\ incProc' = [incProc EXCEPT ![p] =
          IF escalateSkips(incidents, @.id) THEN IncReturn(@)
          ELSE [@ EXCEPT !.pc = "esc_update"]]
    /\ UNCHANGED <<now, cbVars, idemVars, incCycle, incidents, incOps, alerts, safeVars, moreVars>>

\* escalate: the UPDATE and the alert
IncEscUpdate(p) ==
    /\ incProc[p].pc = "esc_update"
    /\ incidents' = escalate(incidents, incProc[p].id, now)
    /\ alerts' = alerts \cup
         {[severity |-> IF incidents[incProc[p].id].priority = "P1"
                        THEN "CRITICAL" ELSE "HIGH",
           kind |-> "escalated"]}
    /\ incProc' = [incProc EXCEPT ![p] = IncReturn(@)]
    /\ UNCHANGED <<now, cbVars, idemVars, incCycle, incOps, safeVars, moreVars>>

IncTick ==
    /\ now < MaxIncTime
    /\ now' = now + 1
    /\ UNCHANGED <<cbVars, idemVars, incVars, alerts, safeVars, moreVars>>

\* the scheduler alone: invariant cycles, no direct incident-manager call
EngineNext ==
    \/ \E p \in IncProcs : IncRunAll(p)
    \/ \E p \in IncProcs : IncCouSelect(p)
    \/ \E p \in IncProcs : IncCreate(p)
    \/ \E p \in IncProcs : IncHealUpdate(p)
    \/ \E p \in IncProcs : IncHealSelect(p)
    \/ \E p \in IncProcs : IncEscSelect(p)
    \/ \E p \in IncProcs : IncEscUpdate(p)
    \/ IncTick

IncInit ==
    /\ incCycle = [p \in IncProcs |-> {}]
    /\ incidents = <<>>
    /\ incProc = [p \in IncProcs |-> IncIdle]
    /\ incOps = 0

IncNext ==
    \/ \E p \in IncProcs : IncRunAll(p)
    \/ \E p \in IncProcs : IncCallCreateOrUpdate(p)
    \/ \E p \in IncProcs : IncCallDirect(p)
    \/ \E p \in IncProcs : IncCouSelect(p)
    \/ \E p \in IncProcs : IncCreate(p)
    \/ \E p \in IncProcs : IncResolve(p)
    \/ \E p \in IncProcs : IncHealUpdate(p)
    \/ \E p \in IncProcs : IncHealSelect(p)
    \/ \E p \in IncProcs : IncEscSelect(p)
    \/ \E p \in IncProcs : IncEscUpdate(p)
    \/ IncTick

(***************************************************************************)
(* HEALTH SCORER, SAFE MODE, SAFE-MODE MIDDLEWARE                          *)
(***************************************************************************)
WRITE_METHODS == {"POST", "PUT", "PATCH", "DELETE"}

\* request methods and urls the model sends; a url is the sequence of the
\* pieces of its text, <<>> is a request without url
Methods == WRITE_METHODS \cup {"GET"}
ControlPrefix == <<"/system-mode">>
Urls == { <<"/system-mode", "/safe">>, <<"/system-mode", "s">>,
          <<"/api", "/system-mode">>, <<>> }

Tokens == {"t1"}
SuppliedTokens == {NULL, Val("t1"), Val("t2")}

\* String.prototype.startsWith
StartsWith(str, prefix) ==
    Len(str) >= Len(prefix) /\ SubSeq(str, 1, Len(prefix)) = prefix

\* Math.round of num / den for num >= 0, den > 0
RoundDiv(num, den) == (2 * num + den) \div (2 * den)

\* the inputs of one compute(): what the six scorers read. drift, summary,
\* backupAgeHrs and pending are NULL when their query throws; backupAgeHrs is
\* Val(-1) when no PASSED validation exists; rates are in 1/10000
HealthInputs ==
    { [drift |-> Val(100), rate |-> 0, p95 |-> 0, summary |-> Val([P1 |-> 0, P2 |-> 0, P3 |-> 0, P4 |-> 0]),
       backupAgeHrs |-> Val(6), pending |-> Val(0)],
      [drift |-> Val(0), rate |-> 800, p95 |-> 1200, summary |-> Val([P1 |-> 3, P2 |-> 0, P3 |-> 0, P4 |-> 0]),
       backupAgeHrs |-> Val(-1), pending |-> Val(0)],
      [drift |-> NULL, rate |-> 0, p95 |-> 1200, summary |-> Val([P1 |-> 3, P2 |-> 0, P3 |-> 0, P4 |-> 0]),
       backupAgeHrs |-> Val(-1), pending |-> Val(2)],
      [drift |-> Val(63), rate |-> 0, p95 |-> 1200, summary |-> Val([P1 |-> 1, P2 |-> 2, P3 |-> 0, P4 |-> 0]),
       backupAgeHrs |-> Val(72), pending |-> Val(2)],
      [drift |-> NULL, rate |-> 800, p95 |-> 1200, summary |-> NULL,
       backupAgeHrs |-> NULL, pending |-> NULL] }

scoreIntegrity(drift) == RoundDiv(drift * 30, 100)

scoreErrorRate(rate) ==
    IF rate = 0 THEN 20
    ELSE IF rate < 50 THEN 18
    ELSE IF rate < 100 THEN 15
    ELSE IF rate < 300 THEN 10
    ELSE IF rate < 500 THEN 5
    ELSE 0

scoreLatency(p95) ==
    IF p95 = 0 THEN 15
    ELSE IF p95 < 100 THEN 15
    ELSE IF p95 < 200 THEN 12
    ELSE IF p95 < 500 THEN 8
    ELSE IF p95 < 1000 THEN 4
    ELSE 0

\* the deduction without Math.max(0, ..)
scoreIncidents_unclamped(summary) ==
    20 - (summary.P1 * 10 + summary.P2 * 5 + summary.P3 * 2 + summary.P4 * 1)

scoreIncidents(summary) ==
    Max(0, 20 - (summary.P1 * 10 + summary.P2 * 5 + summary.P3 * 2 + summary.P4 * 1))

scoreBackup(ageHrs) ==
    IF ageHrs < 0 THEN 0
    ELSE IF ageHrs < 12 THEN 10
    ELSE IF ageHrs < 24 THEN 7
    ELSE IF ageHrs < 48 THEN 3
    ELSE 0

scoreMigrations(pending) ==
    IF pending = NULL THEN 3 ELSE IF pending[1] = 0 THEN 5 ELSE 0

\* the Promise.all of compute(), with its .catch fallbacks
Components(in) ==
    [integrity  |-> IF in.drift = NULL THEN 20 ELSE scoreIntegrity(in.drift[1]),
     errorRate  |-> scoreErrorRate(in.rate),
     latency    |-> scoreLatency(in.p95),
     incidents  |-> IF in.summary = NULL THEN 15 ELSE scoreIncidents(in.summary[1]),
     backup     |-> IF in.backupAgeHrs = NULL THEN 5 ELSE scoreBackup(in.backupAgeHrs[1]),
     migrations |-> scoreMigrations(in.pending)]

\* Object.values(components).reduce((a, b) => a + b, 0)
ScoreOf(c) ==
    c.integrity + c.errorRate + c.latency + c.incidents + c.backup + c.migrations

GradeOf(score) ==
    IF score >= 90 THEN "A"
    ELSE IF score >= 75 THEN "B"
    ELSE IF score >= 60 THEN "C"
    ELSE IF score >= 40 THEN "D"
    ELSE "F"

\* the alert test with the threshold of grade D
computeAlerts_below30(score, safeMode) == score < 30 /\ ~safeMode

\* the test that guards the critical alert and, inside it, the auto-engagement
computeAlerts(score, safeMode) == score < 40 /\ ~safeMode
computeEngages(grade) == grade = "F"

AutoEngageReason == <<"Health score F", " -- auto-engaged by health engine">>

\* isSafeMode(): rows[0]?.safe_mode ?? false
isSafeMode(row) == row.safe_mode

\* the UPDATE of enableSafeMode
enableSafeMode(row, reason, enabledBy) ==
    [row EXCEPT !.safe_mode = TRUE, !.safe_mode_reason = Val(reason),
                !.enabled_by = Val(enabledBy)]

\* the token test of disableSafeMode: TRUE when the disable is refused
disableRefused(expected, overrideToken) ==
    expected # NULL /\ expected # overrideToken

\* the UPDATE of disableSafeMode
disableSafeMode(row) ==
    [row EXCEPT !.safe_mode = FALSE, !.safe_mode_reason = NULL, !.override_token = NULL]

\* safeModeMiddleware with a catch that lets the request through
safeModeMiddleware_failOpen(method, url, ok, safe) ==
    IF method \in WRITE_METHODS /\ ~StartsWith(url, ControlPrefix) /\ ok /\ safe
    THEN [status |-> 503, error |-> "SERVICE_IN_SAFE_MODE", readOnly |-> TRUE,
          handler |-> FALSE]
    ELSE [status |-> 0, error |-> "", readOnly |-> FALSE, handler |-> TRUE]

\* safeModeMiddleware: the answer to a request, given the outcome of
\* engine.isSafeMode() (ok = FALSE: it threw)
safeModeMiddleware(method, url, ok, safe) ==
    IF method \notin WRITE_METHODS
    THEN [status |-> 0, error |-> "", readOnly |-> FALSE, handler |-> TRUE]
    ELSE IF StartsWith(url, ControlPrefix)
    THEN [status |-> 0, error |-> "", readOnly |-> FALSE, handler |-> TRUE]
    ELSE IF ~ok
    THEN [status |-> 503, error |-> "SAFE_MODE_CHECK_FAILED", readOnly |-> FALSE,
          handler |-> FALSE]
    ELSE IF safe
    THEN [status |-> 503, error |-> "SERVICE_IN_SAFE_MODE", readOnly |-> TRUE,
          handler |-> FALSE]
    ELSE [status |-> 0, error |-> "", readOnly |-> FALSE, handler |-> TRUE]

HcIdle == [pc |-> "idle", score |-> 0, grade |-> "A", safeMode |-> FALSE,
           components |-> NULL, overwritten |-> FALSE]

NoRequest == [method |-> "", url |-> <<>>, lookupOk |-> TRUE,
              answer |-> [status |-> 0, error |-> "", readOnly |-> FALSE, handler |-> FALSE]]

\* a request goes through the preHandler hook
SafeModeGate ==
    \E method \in Methods, url \in Urls, ok \in BOOLEAN :
        /\ gate = NoRequest
        /\ gate' = [method |-> method, url |-> url, lookupOk |-> ok,
                    answer |-> safeModeMiddleware(method, url, ok, isSafeMode(systemMode))]
        /\ UNCHANGED <<now, cbVars, idemVars, incVars, moreVars, alerts, systemMode, lastHealth, hc, dis>>

\* the request is over: the 503 was sent, or the route handler has replied
GateReply ==
    /\ gate # NoRequest
    /\ gate' = NoRequest
    /\ UNCHANGED <<now, cbVars, idemVars, incVars, moreVars, alerts, systemMode, lastHealth, hc, dis>>

\* compute(): the six scorers, score and grade
HcScore ==
    /\ hc.pc \in {"idle", "returned"}
    /\ \E in \in HealthInputs :
         LET c == Components(in) IN
         hc' = [HcIdle EXCEPT !.pc = "read_mode", !.components = Val(c),
                              !.score = ScoreOf(c), !.grade = GradeOf(ScoreOf(c))]
    /\ UNCHANGED <<now, cbVars, idemVars, incVars, moreVars, alerts, systemMode, lastHealth, dis, gate>>

\* compute(): const safeMode = await this.isSafeMode()
HcReadMode ==
    /\ hc.pc = "read_mode"
    /\ hc' = [hc EXCEPT !.pc = "persist", !.safeMode = isSafeMode(systemMode)]
    /\ UNCHANGED <<now, cbVars, idemVars, incVars, moreVars, alerts, systemMode, lastHealth, dis, gate>>

\* compute(): the INSERT INTO health_scores, then the test for the alert
HcPersist ==
    /\ hc.pc = "persist"
    /\ lastHealth' = Val([score |-> hc.score, components |-> hc.components[1],
                          safe_mode |-> hc.safeMode])
    /\ hc' = [hc EXCEPT !.pc = IF computeAlerts(hc.score, hc.safeMode)
                                THEN "alert" ELSE "returned"]
    /\ UNCHANGED <<now, cbVars, idemVars, incVars, moreVars, alerts, systemMode, dis, gate>>

\* compute(): the CRITICAL alert, then the test for the auto-engagement
HcAlert ==
    /\ hc.pc = "alert"
    /\ alerts' = alerts \cup {[severity |-> "CRITICAL", kind |-> "health"]}
    /\ hc' = [hc EXCEPT !.pc = IF computeEngages(hc.grade) THEN "enable" ELSE "returned"]
    /\ UNCHANGED <<now, cbVars, idemVars, incVars, moreVars, systemMode, lastHealth, dis, gate>>

\* compute() -> enableSafeMode(): the UPDATE
HcEnable ==
    /\ hc.pc = "enable"
    /\ systemMode' = enableSafeMode(systemMode, AutoEngageReason, "system")
    /\ hc' = [hc EXCEPT !.pc = "enable_alert", !.overwritten = FALSE]
    /\ UNCHANGED <<now, cbVars, idemVars, incVars, moreVars, alerts, lastHealth, dis, gate>>

\* compute() -> enableSafeMode(): the alert; compute returns the report
HcEnableAlert ==
    /\ hc.pc = "enable_alert"
    /\ alerts' = alerts \cup {[severity |-> "CRITICAL", kind |-> "safe_mode"]}
    /\ hc' = [hc EXCEPT !.pc = "returned"]
    /\ UNCHANGED <<now, cbVars, idemVars, incVars, moreVars, systemMode, lastHealth, dis, gate>>

\* POST /system-mode/safe: enableSafeMode(reason ?? 'Manual', enabledBy ?? 'api')
SafeModePost ==
    /\ \E reason \in {<<"Manual">>} :
         systemMode' = enableSafeMode(systemMode, reason, "api")
    /\ alerts' = alerts \cup {[severity |-> "CRITICAL", kind |-> "safe_mode"]}
    /\ hc' = [hc EXCEPT !.overwritten = TRUE]
    /\ UNCHANGED <<now, cbVars, idemVars, incVars, moreVars, lastHealth, dis, gate>>

\* setSafeModeOverrideToken(token)
SetOverrideToken ==
    /\ \E token \in Tokens : systemMode' = [systemMode EXCEPT !.override_token = Val(token)]
    /\ systemMode' # systemMode
    /\ UNCHANGED <<now, cbVars, idemVars, incVars, moreVars, alerts, lastHealth, hc, dis, gate>>

\* disableSafeMode(overrideToken, _): the SELECT of the stored token and the test
DisSelect ==
    /\ dis.pc \in {"idle", "refused", "disabled"}
    /\ \E overrideToken \in SuppliedTokens :
         dis' = [pc |-> IF disableRefused(systemMode.override_token, overrideToken)
                        THEN "refused" ELSE "update",
                 token |-> overrideToken]
    /\ UNCHANGED <<now, cbVars, idemVars, incVars, moreVars, alerts, systemMode, lastHealth, hc, gate>>

\* disableSafeMode: the UPDATE, return true
DisUpdate ==
    /\ dis.pc = "update"
    /\ systemMode' = disableSafeMode(systemMode)
    /\ dis' = [dis EXCEPT !.pc = "disabled"]
    /\ hc' = [hc EXCEPT !.overwritten = TRUE]
    /\ UNCHANGED <<now, cbVars, idemVars, incVars, moreVars, alerts, lastHealth, gate>>

SafeInit ==
    /\ systemMode = [safe_mode |-> FALSE, safe_mode_reason |-> NULL,
                     enabled_by |-> NULL, override_token |-> NULL]
    /\ lastHealth = NULL
    /\ hc = HcIdle
    /\ dis = [pc |-> "idle", token |-> NULL]
    /\ gate = NoRequest

SafeNext ==
    \/ SafeModeGate
    \/ GateReply
    \/ HcScore
    \/ HcReadMode
    \/ HcPersist
    \/ HcAlert
    \/ HcEnable
    \/ HcEnableAlert
    \/ SafeModePost
    \/ SetOverrideToken
    \/ DisSelect
    \/ DisUpdate

(***************************************************************************)
(* RETRY WITH JITTER: withDeadlockRetry, withNetworkRetry                  *)
(***************************************************************************)
\* maxAttempts of withDeadlockRetry (default) and of withNetworkRetry
DeadlockMaxAttempts == 5
NetworkMaxAttempts  == 4

MaxRetryTime == 4

\* a thrown value: its class, its Prisma code, and its message as the
\* sequence of the pieces of its text
PrismaError(code, message) ==
    [cls |-> "PrismaClientKnownRequestError", code |-> code, message |-> message]
PlainError(message) == [cls |-> "Error", code |-> "", message |-> message]
NoError == [cls |-> "", code |-> "", message |-> <<>>]

\* what CircuitBreaker.call throws while OPEN
BreakerOpenError == PlainError(<<"CircuitBreaker[", "database", "] OPEN -- rejecting call">>)

\* the values fn throws in the model
FnErrors ==
    { PrismaError("P2034", <<"Transaction failed due to a write conflict or a deadlock">>),
      PrismaError("P2010", <<"Raw query failed. Code: 40P01. Message: ", "deadlock detected">>),
      PrismaError("P1001", <<"Can't reach database server">>),
      PrismaError("P2002", <<"Unique constraint failed">>),
      PlainError(<<"could not serialize", " access due to concurrent update">>),
      PlainError(<<"connect ", "ECONNREFUSED", " 127.0.0.1:5432">>),
      PlainError(<<"validation failed">>),
      [cls |-> "string", code |-> "", message |-> <<"lock timeout">>] }

\* String.prototype.includes, for a piece of text
Includes(message, piece) == \E i \in 1..Len(message) : message[i] = piece

isDeadlock(err) ==
    IF err.cls = "PrismaClientKnownRequestError"
    THEN err.code = "P2034"
    ELSE IF err.cls = "Error"
    THEN \/ Includes(err.message, "deadlock detected")
         \/ Includes(err.message, "could not serialize")
         \/ Includes(err.message, "lock timeout")
    ELSE FALSE

\* isNetworkError that takes every Error for a transport failure
isNetworkError_anyError(err) ==
    IF err.cls = "PrismaClientKnownRequestError"
    THEN err.code \in {"P1001", "P1002", "P1008", "P1017"}
    ELSE err.cls = "Error"

isNetworkError(err) ==
    IF err.cls = "PrismaClientKnownRequestError"
    THEN err.code \in {"P1001", "P1002", "P1008", "P1017"}
    ELSE IF err.cls = "Error"
    THEN \/ Includes(err.message, "ECONNREFUSED")
         \/ Includes(err.message, "ETIMEDOUT")
         \/ Includes(err.message, "socket hang up")
    ELSE FALSE

\* the catch of withDeadlockRetry: TRUE when err is rethrown
deadlockGivesUp(err, attempt) == ~isDeadlock(err) \/ attempt = DeadlockMaxAttempts

\* the catch of withNetworkRetry: TRUE when err is rethrown
networkGivesUp(err, attempt) == ~isNetworkError(err) \/ attempt = NetworkMaxAttempts

RetryIdle == [pc |-> "idle", attempt |-> 0, calls |-> 0, err |-> NoError, value |-> NULL]

\* withDeadlockRetry(fn): attempt = 1, await fn()
DlStart ==
    /\ dl.pc = "idle"
    /\ dl' = [dl EXCEPT !.pc = "infn", !.attempt = 1, !.calls = 1]
    /\ UNCHANGED <<now, cbVars, idemVars, incVars, alerts, safeVars, lateVars, rlVars, dgVars, rbVars, nr, retryMetrics>>

\* fn() resolves: return its value
DlFnOk ==
    /\ dl.pc = "infn"
    /\ dl' = [dl EXCEPT !.pc = "returned", !.value = Val("fn value")]
    /\ UNCHANGED <<now, cbVars, idemVars, incVars, alerts, safeVars, lateVars, rlVars, dgVars, rbVars, nr, retryMetrics>>

\* fn() rejects with err: rethrow, or count the retry and sleep
DlFnFail ==
    /\ dl.pc = "infn"
    /\ \E err \in FnErrors :
         IF deadlockGivesUp(err, dl.attempt)
         THEN /\ retryMetrics' = [retryMetrics EXCEPT !.exhausted = @ + 1]
              /\ dl' = [dl EXCEPT !.pc = "threw", !.err = err]
         ELSE /\ retryMetrics' = [retryMetrics EXCEPT !.count = @ + 1]
              /\ dl' = [dl EXCEPT !.pc = "sleeping", !.err = err]
    /\ UNCHANGED <<now, cbVars, idemVars, incVars, alerts, safeVars, lateVars, rlVars, dgVars, rbVars, nr>>

\* the sleep is over: next attempt, await fn()
DlWake ==
    /\ dl.pc = "sleeping"
    /\ dl' = [dl EXCEPT !.pc = "infn", !.attempt = @ + 1, !.calls = @ + 1]
    /\ UNCHANGED <<now, cbVars, idemVars, incVars, alerts, safeVars, lateVars, rlVars, dgVars, rbVars, nr, retryMetrics>>

\* withNetworkRetry(fn, cb): attempt = 1
NrStart ==
    /\ nr.pc = "idle"
    /\ nr' = [nr EXCEPT !.pc = "call", !.attempt = 1]
    /\ UNCHANGED <<now, cbVars, idemVars, incVars, alerts, safeVars, lateVars, rlVars, dgVars, rbVars, dl, retryMetrics>>

\* cb.call(fn) up to its await: rejected while OPEN, else fn is invoked
NrCall ==
    /\ nr.pc = "call"
    /\ LET r == call(cb, now) IN
       /\ cb' = r.b
       /\ IF r.rejected
          THEN nr' = [nr EXCEPT !.err = BreakerOpenError,
                                !.pc = IF networkGivesUp(BreakerOpenError, nr.attempt)
                                       THEN "threw" ELSE "sleeping"]
          ELSE nr' = [nr EXCEPT !.pc = "infn", !.calls = @ + 1]
    /\ UNCHANGED <<now, cbCalls, cbLast, closedFailures, failStreak, probeStreak,
                   idemVars, incVars, alerts, safeVars, lateVars, rlVars, dgVars, rbVars, dl,
                   retryMetrics>>

\* fn() resolves inside cb.call: onSuccess, return its value
NrFnOk ==
    /\ nr.pc = "infn"
    /\ cb' = onSuccess(cb, now)
    /\ nr' = [nr EXCEPT !.pc = "returned", !.value = Val("fn value")]
    /\ UNCHANGED <<now, cbCalls, cbLast, closedFailures, failStreak, probeStreak,
                   idemVars, incVars, alerts, safeVars, lateVars, rlVars, dgVars, rbVars, dl,
                   retryMetrics>>

\* fn() rejects inside cb.call: onFailure, then the catch of withNetworkRetry
NrFnFail ==
    /\ nr.pc = "infn"
    /\ cb' = onFailure(cb, now)
    /\ \E err \in FnErrors :
         nr' = [nr EXCEPT !.err = err,
                          !.pc = IF networkGivesUp(err, nr.attempt) THEN "threw" ELSE "sleeping"]
    /\ UNCHANGED <<now, cbCalls, cbLast, closedFailures, failStreak, probeStreak,
                   idemVars, incVars, alerts, safeVars, lateVars, rlVars, dgVars, rbVars, dl,
                   retryMetrics>>

\* the sleep is over: next attempt
NrWake ==
    /\ nr.pc = "sleeping"
    /\ nr' = [nr EXCEPT !.pc = "call", !.attempt = @ + 1]
    /\ UNCHANGED <<now, cbVars, idemVars, incVars, alerts, safeVars, lateVars, rlVars, dgVars, rbVars, dl, retryMetrics>>

\* another user of the same global breaker has a call fail
NrOtherCallFails ==
    /\ ~call(cb, now).rejected
    /\ cb' = onFailure(call(cb, now).b, now)
    /\ UNCHANGED <<now, cbCalls, cbLast, closedFailures, failStreak, probeStreak,
                   idemVars, incVars, alerts, safeVars, lateVars, rlVars, dgVars, rbVars, retryVars>>

RetryTick ==
    /\ now < MaxRetryTime
    /\ now' = now + 1
    /\ UNCHANGED <<cbVars, idemVars, incVars, alerts, safeVars, lateVars, rlVars, dgVars, rbVars, retryVars>>

RetryInit ==
    /\ dl = RetryIdle
    /\ nr = RetryIdle
    /\ retryMetrics = [count |-> 0, exhausted |-> 0]

RetryNext ==
    \/ DlStart
    \/ DlFnOk
    \/ DlFnFail
    \/ DlWake
    \/ NrStart
    \/ NrCall
    \/ NrFnOk
    \/ NrFnFail
    \/ NrWake
    \/ NrOtherCallFails
    \/ RetryTick

(***************************************************************************)
(* RATE LIMITER (sliding window in-process)                                *)
(***************************************************************************)
\* one time unit of the limiter's clock is 30 s
WINDOW_MS == 2
\* window.blockUntil = now + 5 * 60_000
BLOCK_MS == 5 * WINDOW_MS

\* the limit the callers pass to record()
RateLimit == 2

MaxRlTime  == 13
MaxRlCalls == 6

RlKeys == {"ip:10.0.0.1"}

\* windows.get(key) of a key the map does not hold
NoWindow == [present |-> FALSE, timestamps |-> <<>>, blocked |-> FALSE, blockUntil |-> 0]

\* { timestamps: [], blocked: false, blockUntil: 0 }
EmptyWindow == [present |-> TRUE, timestamps |-> <<>>, blocked |-> FALSE, blockUntil |-> 0]

\* window.timestamps.filter(t => now - t < WINDOW_MS)
Slide(timestamps, t) ==
    Filter(timestamps, [i \in 1..Len(timestamps) |-> t - timestamps[i] < WINDOW_MS])

\* record() that blocks one request later
record_late(windows, key, limit, t) ==
    LET w0 == IF windows[key].present THEN windows[key] ELSE EmptyWindow IN
    IF w0.blocked /\ t < w0.blockUntil
    THEN [windows |-> windows, blocked |-> TRUE, count |-> Len(w0.timestamps)]
    ELSE LET w1 == IF w0.blocked /\ t >= w0.blockUntil THEN EmptyWindow ELSE w0
             ts == Append(Slide(w1.timestamps, t), t)
             w2 == IF Len(ts) > limit + 1
                   THEN [w1 EXCEPT !.timestamps = ts, !.blocked = TRUE,
                                   !.blockUntil = t + BLOCK_MS]
                   ELSE [w1 EXCEPT !.timestamps = ts]
         IN [windows |-> [windows EXCEPT ![key] = w2],
             blocked |-> w2.blocked, count |-> Len(ts)]

\* record() that keeps the window of an expired block
record_noReset(windows, key, limit, t) ==
    LET w0 == IF windows[key].present THEN windows[key] ELSE EmptyWindow IN
    IF w0.blocked /\ t < w0.blockUntil
    THEN [windows |-> windows, blocked |-> TRUE, count |-> Len(w0.timestamps)]
    ELSE LET w1 == w0
             ts == Append(Slide(w1.timestamps, t), t)
             w2 == IF Len(ts) > limit
                   THEN [w1 EXCEPT !.timestamps = ts, !.blocked = TRUE,
                                   !.blockUntil = t + BLOCK_MS]
                   ELSE [w1 EXCEPT !.timestamps = ts]
         IN [windows |-> [windows EXCEPT ![key] = w2],
             blocked |-> w2.blocked, count |-> Len(ts)]

\* RateLimiterStore.record(key, limit) at time t: the map afterwards and the
\* value returned
record(windows, key, limit, t) ==
    LET w0 == IF windows[key].present THEN windows[key] ELSE EmptyWindow IN
    IF w0.blocked /\ t < w0.blockUntil
    THEN [windows |-> windows, blocked |-> TRUE, count |-> Len(w0.timestamps)]
    ELSE LET w1 == IF w0.blocked /\ t >= w0.blockUntil THEN EmptyWindow ELSE w0
             ts == Append(Slide(w1.timestamps, t), t)
             w2 == IF Len(ts) > limit
                   THEN [w1 EXCEPT !.timestamps = ts, !.blocked = TRUE,
                                   !.blockUntil = t + BLOCK_MS]
                   ELSE [w1 EXCEPT !.timestamps = ts]
         IN [windows |-> [windows EXCEPT ![key] = w2],
             blocked |-> w2.blocked, count |-> Len(ts)]

\* RateLimiterStore.isBlocked(key)
rlIsBlocked(windows, key, t) ==
    windows[key].present /\ windows[key].blocked /\ t < windows[key].blockUntil

\* RateLimiterStore.cleanup(): the keys it deletes
cleanupDeletes(windows, t) ==
    { k \in RlKeys :
        /\ windows[k].present
        /\ ~windows[k].blocked
        /\ \/ Len(windows[k].timestamps) = 0
           \/ t - windows[k].timestamps[Len(windows[k].timestamps)] > WINDOW_MS * 2 }

\* a request of key: securityMiddleware calls rateLimiter.record
RlRecord(key) ==
    /\ rlLast.calls < MaxRlCalls
    /\ LET r == record(rlWindows, key, RateLimit, now)
           appended == r.windows[key] # rlWindows[key] IN
       /\ rlWindows' = r.windows
       /\ rlLast' = [key |-> key, blocked |-> r.blocked, count |-> r.count,
                     calls |-> rlLast.calls + 1]
       /\ rlHist' = IF appended THEN [rlHist EXCEPT ![key] = Append(@, now)] ELSE rlHist
       /\ rlBreach' = IF appended /\ r.blocked THEN [rlBreach EXCEPT ![key] = now]
                      ELSE rlBreach
    /\ UNCHANGED <<now, cbVars, idemVars, incVars, alerts, safeVars, lateVars, retryVars, dgVars, rbVars>>

\* the rate-limiter-cleanup job
RlCleanup ==
    /\ cleanupDeletes(rlWindows, now) # {}
    /\ rlWindows' = [k \in RlKeys |-> IF k \in cleanupDeletes(rlWindows, now)
                                      THEN NoWindow ELSE rlWindows[k]]
    /\ UNCHANGED <<now, cbVars, idemVars, incVars, alerts, safeVars, lateVars, retryVars, dgVars, rbVars,
                   rlLast, rlHist, rlBreach>>

RlTick ==
    /\ now < MaxRlTime
    /\ now' = now + 1
    /\ UNCHANGED <<cbVars, idemVars, incVars, alerts, safeVars, lateVars, retryVars, rlVars, dgVars, rbVars>>

RlInit ==
    /\ rlWindows = [k \in RlKeys |-> NoWindow]
    /\ rlLast = [key |-> "", blocked |-> FALSE, count |-> 0, calls |-> 0]
    /\ rlHist = [k \in RlKeys |-> <<>>]
    /\ rlBreach = [k \in RlKeys |-> -1]

RlNext ==
    \/ \E key \in RlKeys : RlRecord(key)
    \/ RlCleanup
    \/ RlTick

(***************************************************************************)
(* DEPLOYMENT GATE RUNNER                                                  *)
(***************************************************************************)
DRIFT_SCORE_THRESHOLD == 85
COVERAGE_THRESHOLD    == 85
BACKUP_MAX_AGE_HOURS  == 24
\* 0.03, in 1/10000
ERROR_RATE_THRESHOLD  == 300

MaxDgRuns == 2

\* a gate's result; gate is the sequence of the pieces of the name, detail is
\* kept only as far as it tells a check error
GateResult(name, passed, detail) ==
    [gate |-> <<name>>, passed |-> passed, detail |-> detail, blocking |-> TRUE]

gateNoOpenP1(count) == GateResult("NO_OPEN_P1_INCIDENTS", count = 0, "")
gateDriftScore(score) == GateResult("DRIFT_SCORE", score >= DRIFT_SCORE_THRESHOLD, "")
\* ageHrs < 0: no PASSED validation on record
gateBackupFreshness(ageHrs) ==
    GateResult("BACKUP_FRESHNESS", ageHrs >= 0 /\ ageHrs < BACKUP_MAX_AGE_HOURS, "")
gateErrorRate(rate) == GateResult("ERROR_RATE", rate <= ERROR_RATE_THRESHOLD, "")
gateMigrations(pending) == GateResult("MIGRATIONS_CLEAN", pending = 0, "")
\* pct: the line coverage jest reported, 0 when none was parsed
gateCoverage(pct, status) ==
    IF pct = 0 /\ status # 0
    THEN GateResult("TEST_COVERAGE", FALSE, "Coverage check failed")
    ELSE GateResult("TEST_COVERAGE", pct >= COVERAGE_THRESHOLD, "")

\* what the checks of one evaluation read; NULL: the read throws
GateInputs ==
    [p1Count   : {Val(0), Val(1), NULL},
     drift     : {Val(100), Val(84)},
     backupAge : {Val(6), NULL},
     errorRate : {300, 301},
     pending   : {Val(0)},
     coverage  : {<<90, 0>>, <<0, 1>>},
     skipCoverage : BOOLEAN]

\* the outcome of check i as Promise.allSettled reports it
Settled(in) ==
    LET base == << IF in.p1Count = NULL THEN NULL ELSE Val(gateNoOpenP1(in.p1Count[1])),
                   IF in.drift = NULL THEN NULL ELSE Val(gateDriftScore(in.drift[1])),
                   IF in.backupAge = NULL THEN NULL ELSE Val(gateBackupFreshness(in.backupAge[1])),
                   Val(gateErrorRate(in.errorRate)),
                   IF in.pending = NULL THEN NULL ELSE Val(gateMigrations(in.pending[1])) >>
    IN IF in.skipCoverage THEN base
       ELSE Append(base, Val(gateCoverage(in.coverage[1], in.coverage[2])))

\* the mapping of a rejected check that lets it pass
gateOf_lenient(settled, i) ==
    IF settled # NULL THEN settled[1]
    ELSE [gate |-> <<"GATE_", i - 1>>, passed |-> TRUE, detail |-> "Check error",
          blocking |-> TRUE]

\* results.map((r, i) => ...): the gate of the i-th settled check (i from 1)
gateOf(settled, i) ==
    IF settled # NULL THEN settled[1]
    ELSE [gate |-> <<"GATE_", i - 1>>, passed |-> FALSE, detail |-> "Check error",
          blocking |-> TRUE]

gatesOf(results) == [i \in 1..Len(results) |-> gateOf(results[i], i)]

\* gates.filter(g => !g.passed && g.blocking)
blockersOf(gates) ==
    Filter(gates, [i \in 1..Len(gates) |-> ~gates[i].passed /\ gates[i].blocking])

DgIdle == [pc |-> "idle", gates |-> <<>>, blockers |-> <<>>, alerted |-> FALSE, runs |-> 0]

\* runDeploymentGates: the checks, awaited together
DgEvaluate ==
    /\ dg.pc \in {"idle", "returned", "threw"}
    /\ dg.runs < MaxDgRuns
    /\ \E in \in GateInputs :
         LET gates == gatesOf(Settled(in)) IN
         dg' = [pc |-> "persist", gates |-> gates, blockers |-> blockersOf(gates),
                alerted |-> FALSE, runs |-> dg.runs + 1]
    /\ UNCHANGED <<now, cbVars, idemVars, incVars, alerts, safeVars, lateVars, retryVars, rlVars, rbVars, dgLog>>

\* the INSERT INTO deployment_gates, then the test for blockers
DgPersist ==
    /\ dg.pc = "persist"
    /\ dgLog' = Append(dgLog, [passed |-> Len(dg.blockers) = 0, gates |-> dg.gates,
                               blockers |-> dg.blockers, triggered_by |-> "system"])
    /\ dg' = [dg EXCEPT !.pc = IF Len(dg.blockers) > 0 THEN "alert" ELSE "returned"]
    /\ UNCHANGED <<now, cbVars, idemVars, incVars, alerts, safeVars, lateVars, retryVars, rlVars, rbVars>>

\* the CRITICAL alert, then throw new Error('Deployment blocked ...')
DgAlert ==
    /\ dg.pc = "alert"
    /\ alerts' = alerts \cup {[severity |-> "CRITICAL", kind |-> "deployment_blocked"]}
    /\ dg' = [dg EXCEPT !.pc = "threw", !.alerted = TRUE]
    /\ UNCHANGED <<now, cbVars, idemVars, incVars, safeVars, lateVars, retryVars, rlVars, rbVars, dgLog>>

DgInit ==
    /\ dg = DgIdle
    /\ dgLog = <<>>

DgNext ==
    \/ DgEvaluate
    \/ DgPersist
    \/ DgAlert

(***************************************************************************)
(* AUTO-ROLLBACK WATCHER                                                   *)
(***************************************************************************)
\* 0.03, in 1/10000
ERROR_SPIKE_THRESHOLD    == 300
LATENCY_SPIKE_MULTIPLIER == 2

\* one time unit of the watcher's clock is the 30 s between two checks;
\* the spike must have lasted more than 60 s
RollbackWindow == 2

MaxRbTime == 7

\* check() calls that can be in flight together
RbChecks == {1, 2}

\* what one check reads: http.error_rate in 1/10000, and the p95 of an endpoint
RbReadings == [error : {0, 500}, p95 : {100, 1200}]

\* errorSpike of check()
errorSpike(currentError, baselineErrorRate) ==
    currentError > ERROR_SPIKE_THRESHOLD /\ currentError > baselineErrorRate * 2

\* latencySpike of check(), for the endpoint read; baseline NULL: none captured
latencySpike(p95, baseline) ==
    LET base == IF baseline = NULL THEN 200 ELSE baseline[1] IN
    p95 > base * LATENCY_SPIKE_MULTIPLIER /\ p95 > 500

\* the test that triggers after any later check
sustained_atOnce(spikeDetectedAt, t) == t - spikeDetectedAt > 0

\* Date.now() - this.spikeDetectedAt > 60_000
sustained(spikeDetectedAt, t) == t - spikeDetectedAt > RollbackWindow

RbChkIdle == [pc |-> "idle", obs |-> 0, alerted |-> FALSE, incident |-> 0]

\* the lowest check() slot not in use
RbFree == {i \in RbChecks : rbChk[i].pc = "idle" /\ \A j \in RbChecks : j < i => rbChk[j].pc # "idle"}

\* 30 s pass and the interval timer calls check(): check() up to its first
\* await, or to its end
RbTimerFires ==
    /\ rb.running
    /\ now < MaxRbTime
    /\ now' = now + 1
    /\ \E i \in RbFree, r \in RbReadings :
         LET spike == errorSpike(r.error, rb.baselineErrorRate) \/ latencySpike(r.p95, NULL) IN
         /\ rbObs' = Append(rbObs, spike)
         /\ IF spike
            THEN IF rb.spikeDetectedAt = NULL
                 THEN /\ rb' = [rb EXCEPT !.spikeDetectedAt = Val(now')]
                      /\ UNCHANGED rbChk
                 ELSE IF sustained(rb.spikeDetectedAt[1], now')
                 THEN /\ rbChk' = [rbChk EXCEPT ![i] = [RbChkIdle EXCEPT !.pc = "alert",
                                                                         !.obs = Len(rbObs')]]
                      /\ UNCHANGED rb
                 ELSE UNCHANGED <<rb, rbChk>>
            ELSE /\ rb' = [rb EXCEPT !.spikeDetectedAt = NULL]
                 /\ UNCHANGED rbChk
    /\ UNCHANGED <<cbVars, idemVars, incVars, alerts, safeVars, lateVars, retryVars, rlVars, dgVars>>

\* check(): alertWebhook('AUTO-ROLLBACK TRIGGERED') has been sent
RbAlert(i) ==
    /\ rbChk[i].pc = "alert"
    /\ alerts' = alerts \cup {[severity |-> "CRITICAL", kind |-> "auto_rollback"]}
    /\ rbChk' = [rbChk EXCEPT ![i].pc = "incident", ![i].alerted = TRUE]
    /\ UNCHANGED <<now, cbVars, idemVars, incVars, safeVars, lateVars, retryVars, rlVars, dgVars, rb, rbObs>>

\* check(): incidentManager.createIncident({priority: 'P1', ...}) has resolved
RbIncident(i) ==
    /\ rbChk[i].pc = "incident"
    /\ incidents' = Append(incidents, NewIncident("P1", "", now))
    /\ alerts' = alerts \cup {[severity |-> Severity("P1"), kind |-> "incident"]}
    /\ rbChk' = [rbChk EXCEPT ![i].pc = "rollback", ![i].incident = Len(incidents')]
    /\ UNCHANGED <<now, cbVars, idemVars, incProc, incOps, incCycle, safeVars, lateVars, retryVars,
                   rlVars, dgVars, rb, rbObs>>

\* check(): this.stop(), then rollbackFn() is invoked
RbStopAndRollback(i) ==
    /\ rbChk[i].pc = "rollback"
    /\ rb' = [rb EXCEPT !.running = FALSE, !.rollbacks = @ + 1]
    /\ rbChk' = [rbChk EXCEPT ![i].pc = "done"]
    /\ UNCHANGED <<now, cbVars, idemVars, incVars, alerts, safeVars, lateVars, retryVars, rlVars, dgVars,
                   rbObs>>

\* time passes once the timer has been cleared
RbTick ==
    /\ ~rb.running
    /\ now < MaxRbTime
    /\ now' = now + 1
    /\ UNCHANGED <<cbVars, idemVars, incVars, alerts, safeVars, lateVars, retryVars, rlVars, dgVars, rbVars>>

RbInit ==
    /\ rb = [baselineErrorRate |-> 100, spikeDetectedAt |-> NULL, running |-> TRUE,
             rollbacks |-> 0]
    /\ rbChk = [i \in RbChecks |-> RbChkIdle]
    /\ rbObs = <<>>

RbNext ==
    \/ RbTimerFires
    \/ \E i \in RbChecks : RbAlert(i)
    \/ \E i \in RbChecks : RbIncident(i)
    \/ \E i \in RbChecks : RbStopAndRollback(i)
    \/ RbTick

(***************************************************************************)
(* AUDIT CHAIN                                                             *)
(***************************************************************************)
MaxAuditRows == 3

AuditTxs == {"tx1", "tx2"}

\* hashes are sequences of strings: the sentinel, a forged value, and
\* sha256(prev_hash || id || ...), which is kept injective
GENESIS == <<"GENESIS">>
FORGED  == <<"FORGED">>
AuditIdAt == <<"a1", "a2", "a3", "a4">>
Sha256(prev_hash, id) == prev_hash \o <<id>>

NoTx == [open |-> FALSE, id |-> "", createdAt |-> 0, prev_hash |-> NULL, row_hash |-> NULL]

\* SELECT row_hash FROM "AuditLog" WHERE id <> NEW.id ORDER BY "createdAt" DESC LIMIT 1,
\* over the rows committed when the statement runs
LatestRowHash(log) == IF Len(log) = 0 THEN NULL ELSE log[Len(log)].row_hash

\* compute_audit_chain_hash(): NEW.prev_hash and NEW.row_hash
ChainHash(log, id, createdAt) ==
    LET prev == LatestRowHash(log)
        prev_hash == IF prev = NULL THEN GENESIS ELSE prev
    IN [open |-> TRUE, id |-> id, createdAt |-> createdAt,
        prev_hash |-> prev_hash, row_hash |-> Sha256(prev_hash, id)]

RECURSIVE InsertByCreatedAt(_, _)
\* the committed row takes its place in createdAt order
InsertByCreatedAt(log, row) ==
    IF Len(log) = 0 \/ log[Len(log)].createdAt < row.createdAt
    THEN Append(log, row)
    ELSE Append(InsertByCreatedAt(SubSeq(log, 1, Len(log) - 1), row), log[Len(log)])

\* lag(a.row_hash) OVER (ORDER BY a."createdAt")
PrevRowHash(rows, i) == IF i = 1 THEN NULL ELSE rows[i - 1].row_hash

\* the test in the loop: row.prevRowHash && row.prev_hash !== row.prevRowHash
Broken(rows, i) ==
    /\ PrevRowHash(rows, i) # NULL
    /\ rows[i].prev_hash # PrevRowHash(rows, i)

\* verifyAuditChain(limit): the result, and the incidents it creates
verifyAuditChain(log, limit) ==
    LET rows == SubSeq(log, 1, Min(limit, Len(log)))
        bad  == {i \in 1..Len(rows) : Broken(rows, i)}
    IN IF bad = {}
       THEN [rows |-> rows, valid |-> TRUE, brokenAt |-> "", created |-> <<>>]
       ELSE LET i == CHOOSE j \in bad : \A k \in bad : j <= k IN
            [rows |-> rows, valid |-> FALSE, brokenAt |-> rows[i].id,
             created |-> <<[priority |-> "P1", title |-> "AUDIT LOG TAMPER DETECTED",
                            brokenAt |-> rows[i].id,
                            expected |-> PrevRowHash(rows, i),
                            actual |-> rows[i].prev_hash]>>]

\* INSERT INTO "AuditLog": the BEFORE INSERT trigger runs in the transaction
AuditInsert(t) ==
    /\ ~auditTx[t].open
    /\ auditSeq < MaxAuditRows
    /\ auditSeq' = auditSeq + 1
    /\ auditTx' = [auditTx EXCEPT ![t] = ChainHash(auditLog, AuditIdAt[auditSeq + 1], auditSeq + 1)]
    /\ UNCHANGED <<now, auRest, auditLog, auditTampered, auditVerdict, auditIncidents>>

\* the transaction commits: the row becomes visible to others
AuditCommit(t) ==
    /\ auditTx[t].open
    /\ auditLog' = InsertByCreatedAt(auditLog, auditTx[t])
    /\ auditTx' = [auditTx EXCEPT ![t] = NoTx]
    /\ UNCHANGED <<now, auRest, auditSeq, auditTampered, auditVerdict, auditIncidents>>

\* a committed row's prev_hash is rewritten from outside the application
AuditTamper ==
    /\ ~auditTampered
    /\ \E i \in 1..Len(auditLog) :
          auditLog' = [auditLog EXCEPT ![i].prev_hash = FORGED]
    /\ auditTampered' = TRUE
    /\ UNCHANGED <<now, auRest, auditTx, auditSeq, auditVerdict, auditIncidents>>

\* verifyAuditChain(limit)
AuditVerify ==
    /\ \E limit \in 1..MaxAuditRows :
          LET v == verifyAuditChain(auditLog, limit) IN
          /\ auditVerdict' = Val(v)
          /\ auditIncidents' = auditIncidents \o v.created
    /\ Len(auditIncidents) < MaxAuditRows
    /\ UNCHANGED <<now, auRest, auditLog, auditTx, auditSeq, auditTampered>>

AuditInit ==
    /\ auditLog = <<>>
    /\ auditTx = [t \in AuditTxs |-> NoTx]
    /\ auditSeq = 0
    /\ auditTampered = FALSE
    /\ auditVerdict = NULL
    /\ auditIncidents = <<>>

AuditNext ==
    \/ \E t \in AuditTxs : AuditInsert(t)
    \/ \E t \in AuditTxs : AuditCommit(t)
    \/ AuditTamper
    \/ AuditVerify

(***************************************************************************)
(* CRON SCHEDULER                                                          *)
(***************************************************************************)
MaxCronRuns == 2

CronJobs == {"health-score", "idempotency-cleanup"}

\* job.runOnStart as initCronScheduler registers the two jobs
runOnStart(j) == j = "health-score"

\* register(job): runCount 0, no lastRun, no lastError; `running` counts the
\* run() calls awaiting job.fn(), `fired` the timer callbacks so far,
\* `errors` is the counter cron.<name>.error_total and `stagger` the pending
\* setTimeout of a runOnStart job
CronJob == [lastRun |-> NULL, lastError |-> NULL, runCount |-> 0,
            errors |-> 0, running |-> 0, fired |-> 0, stagger |-> FALSE]

\* run(), the try branch after job.fn() resolved
runSucceeded(job, t) ==
    [job EXCEPT !.lastRun = Val(t), !.lastError = NULL,
                !.runCount = @ + 1, !.running = @ - 1]

\* run(), the catch branch
runFailed(job, message) ==
    [job EXCEPT !.lastError = Val(message), !.errors = @ + 1, !.running = @ - 1]

\* start(): setTimeout(run, stagger) for every runOnStart job and
\* setInterval(run, job.intervalMs) for every job
CronStart ==
    /\ ~cronOn
    /\ \A j \in CronJobs : cron[j].fired = 0
    /\ cron' = [j \in CronJobs |-> [cron[j] EXCEPT !.stagger = runOnStart(j)]]
    /\ cronOn' = TRUE
    /\ UNCHANGED <<now, cronRest>>

\* the staggered timeout of a runOnStart job fires: run() is entered
CronStaggerFire(j) ==
    /\ cron[j].stagger
    /\ cron' = [cron EXCEPT ![j].stagger = FALSE, ![j].running = @ + 1, ![j].fired = @ + 1]
    /\ UNCHANGED <<now, cronRest, cronOn>>

\* a timer fires: run() is entered and awaits job.fn()
CronFire(j) ==
    /\ cronOn
    /\ cron[j].fired < MaxCronRuns
    /\ cron' = [cron EXCEPT ![j].running = @ + 1, ![j].fired = @ + 1]
    /\ UNCHANGED <<now, cronRest, cronOn>>

\* job.fn() resolves
CronFnOk(j) ==
    /\ cron[j].running > 0
    /\ cron' = [cron EXCEPT ![j] = runSucceeded(@, now)]
    /\ UNCHANGED <<now, cronRest, cronOn>>

\* job.fn() rejects
CronFnThrow(j) ==
    /\ cron[j].running > 0
    /\ cron' = [cron EXCEPT ![j] = runFailed(@, "job failed")]
    /\ UNCHANGED <<now, cronRest, cronOn>>

\* stop(): clearInterval for every job
CronStop ==
    /\ cronOn
    /\ cronOn' = FALSE
    /\ UNCHANGED <<now, cronRest, cron>>

CronInit ==
    /\ cron = [j \in CronJobs |-> CronJob]
    /\ cronOn = FALSE

CronNext ==
    \/ CronStart
    \/ \E j \in CronJobs : CronStaggerFire(j)
    \/ \E j \in CronJobs : CronFire(j)
    \/ \E j \in CronJobs : CronFnOk(j)
    \/ \E j \in CronJobs : CronFnThrow(j)
    \/ CronStop

(***************************************************************************)
(* DRIFT SCORER                                                            *)
(***************************************************************************)
\* the catalogue names with a weight, and one name without
DriftNames == {"NO_NEGATIVE_STOCK", "SALE_TOTAL_MATCHES_LINE_ITEMS",
               "PAYMENT_SUM_MATCHES_SALE_TOTAL", "NO_DUPLICATE_INVOICES",
               "STOCK_MOVEMENT_BALANCE", "CREDIT_LIMIT_NOT_EXCEEDED",
               "NO_ORPHANED_SALE_ITEMS", "CUSTOM_RULE"}

\* weights[r.name] ?? 5
DriftWeight(name) ==
    CASE name = "NO_NEGATIVE_STOCK"              -> 25
      [] name = "SALE_TOTAL_MATCHES_LINE_ITEMS"  -> 20
      [] name = "PAYMENT_SUM_MATCHES_SALE_TOTAL" -> 20
      [] name = "NO_DUPLICATE_INVOICES"          -> 15
      [] name = "STOCK_MOVEMENT_BALANCE"         -> 10
      [] name = "CREDIT_LIMIT_NOT_EXCEEDED"      -> 7
      [] name = "NO_ORPHANED_SALE_ITEMS"         -> 3
      [] OTHER                                   -> 5

\* the lengths r.violations takes in the model
ViolationCounts == {0, 2, 99}

\* numbers are kept in units of 10^-5
Scale == 10 ^ 5

\* Math.log10(n) for n = violations.length + 1, in units of 10^-5
Log10(n) ==
    CASE n = 1   -> 0
      [] n = 3   -> 47712
      [] n = 100 -> 2 * Scale
      [] n = 151 -> 217898

\* a result of the list: {passed, violations.length}
DriftEntries ==
    {Val([passed |-> TRUE, violations |-> 0])}
        \cup {Val([passed |-> FALSE, violations |-> n]) : n \in ViolationCounts}

\* the deduction of one failed result, without the cap
deductionOf_uncapped(name, violations) ==
    DriftWeight(name) * Log10(violations + 1)

\* Math.min(weight, weight * Math.log10(r.violations.length + 1))
deductionOf(name, violations) ==
    Min(DriftWeight(name) * Scale, DriftWeight(name) * Log10(violations + 1))

RECURSIVE SumDeductions(_, _)
\* the loop over results: deduction += ... for every result that did not pass
SumDeductions(results, names) ==
    IF names = {}
    THEN 0
    ELSE LET name == CHOOSE n \in names : TRUE
             r    == results[name]
         IN (IF r # NULL /\ ~r[1].passed THEN deductionOf(name, r[1].violations) ELSE 0)
            + SumDeductions(results, names \ {name})

\* Math.round(x) for x in units of 10^-5: the nearest integer, halves upwards
MathRound(x) == (x + Scale \div 2) \div Scale

\* computeDriftScore(results)
computeDriftScore(results) ==
    Max(0, MathRound(100 * Scale - SumDeductions(results, DOMAIN results)))

\* computeDriftScore is called with some result list (the model follows one call)
DriftCompute ==
    /\ driftCall = NULL
    /\ \E results \in [DriftNames -> DriftEntries] :
          driftCall' = Val([results |-> results, score |-> computeDriftScore(results)])
    /\ UNCHANGED <<now, driftRest>>

DriftInit == driftCall = NULL

DriftNext == DriftCompute

(***************************************************************************)
(* HEALTH SCORE SAMPLES                                                    *)
(***************************************************************************)
\* what the six scorers can read, value by value: NULL stands for a query
\* that throws, backupAgeHrs -1 for no PASSED validation, rates are in 1/10000
HealthReadings ==
    [drift        : {NULL, Val(0), Val(63), Val(100)},
     rate         : {0, 40, 90, 200, 400, 800},
     p95          : {0, 50, 150, 300, 700, 1200},
     summary      : {NULL} \cup {Val([P1 |-> a, P2 |-> b, P3 |-> c, P4 |-> 0]) :
                                     a \in {0, 3}, b \in {0, 1}, c \in {0, 2}},
     backupAgeHrs : {NULL, Val(-1), Val(6), Val(18), Val(30), Val(72)},
     pending      : {NULL, Val(0), Val(2)}]

\* compute() up to INSERT INTO health_scores (score, components, safe_mode)
HsCompute ==
    /\ hsSample = NULL
    /\ \E in \in HealthReadings :
          LET components == Components(in) IN
          hsSample' = Val([in |-> in, components |-> components, score |-> ScoreOf(components)])
    /\ UNCHANGED <<now, hsRest>>

HsInit == hsSample = NULL

HsNext == HsCompute

(***************************************************************************)
(* BACKUP VALIDATION                                                       *)
(***************************************************************************)
MaxBvRuns == 2

BvIdle == [pc |-> "idle", validationId |-> 0, restoreOk |-> FALSE, passed |-> FALSE, alerts |-> 0]

\* UPDATE backup_validations SET status = .. WHERE id = validationId
SetBvStatus(rows, id, status) == [rows EXCEPT ![id].status = status]

\* the job is entered
BvStart ==
    /\ bv.pc = "idle"
    /\ Len(bvRows) < MaxBvRuns
    /\ bv' = [BvIdle EXCEPT !.pc = "create", !.alerts = bv.alerts]
    /\ UNCHANGED <<now, bvRest, bvRows>>

\* 1., 2.: createBackup() resolves and the row is registered as PENDING
BvRegister ==
    /\ bv.pc = "create"
    /\ bvRows' = Append(bvRows, [status |-> "PENDING", restore_tested |-> NULL,
                                 drift_clean |-> NULL, incident_id |-> NULL])
    /\ bv' = [bv EXCEPT !.pc = "restore", !.validationId = Len(bvRows) + 1]
    /\ UNCHANGED <<now, bvRest>>

\* 1.: createBackup() rejects (pg_dump failed)
BvCreateFails ==
    /\ bv.pc = "create"
    /\ bv' = [bv EXCEPT !.pc = "catch"]
    /\ UNCHANGED <<now, bvRest, bvRows>>

\* 3.: shadowRestore() resolves with true or false, restore_tested is stored
BvShadowRestore ==
    /\ bv.pc = "restore"
    /\ \E restoreOk \in BOOLEAN :
          /\ bvRows' = [bvRows EXCEPT ![bv.validationId].restore_tested = Val(restoreOk)]
          /\ bv' = [bv EXCEPT !.pc = "scan", !.restoreOk = restoreOk]
    /\ UNCHANGED <<now, bvRest>>

\* 4., 5.: the drift scan and the checksum comparison, then the UPDATE of
\* drift_clean and status
BvDecide ==
    /\ bv.pc = "scan"
    /\ \E driftClean, checksumValid \in BOOLEAN :
          LET passed == bv.restoreOk /\ driftClean /\ checksumValid IN
          /\ bvRows' = [SetBvStatus(bvRows, bv.validationId, IF passed THEN "PASSED" ELSE "FAILED")
                           EXCEPT ![bv.validationId].drift_clean = Val(driftClean)]
          /\ bv' = [bv EXCEPT !.pc = IF passed THEN "cleanup" ELSE "incident", !.passed = passed]
    /\ UNCHANGED <<now, bvRest>>

\* 5.: fileChecksum(filePath) throws (the dump is gone)
BvChecksumFails ==
    /\ bv.pc = "scan"
    /\ bv' = [bv EXCEPT !.pc = "catch"]
    /\ UNCHANGED <<now, bvRest, bvRows>>

\* createIncident(P1) resolves and incident_id is stored
BvIncident ==
    /\ bv.pc = "incident"
    /\ bvRows' = [bvRows EXCEPT ![bv.validationId].incident_id = Val("incident")]
    /\ bv' = [bv EXCEPT !.pc = "cleanup"]
    /\ UNCHANGED <<now, bvRest>>

\* createIncident(P1) rejects
BvIncidentFails ==
    /\ bv.pc = "incident"
    /\ bv' = [bv EXCEPT !.pc = "catch"]
    /\ UNCHANGED <<now, bvRest, bvRows>>

\* cleanupOldBackups() returns
BvCleanup ==
    /\ bv.pc = "cleanup"
    /\ bv' = [bv EXCEPT !.pc = "idle"]
    /\ UNCHANGED <<now, bvRest, bvRows>>

\* cleanupOldBackups() throws (readdirSync, statSync or unlinkSync fails)
BvCleanupFails ==
    /\ bv.pc = "cleanup"
    /\ bv' = [bv EXCEPT !.pc = "catch"]
    /\ UNCHANGED <<now, bvRest, bvRows>>

\* the catch: the CRITICAL alert, then status = 'FAILED' if the row exists
BvCatch ==
    /\ bv.pc = "catch"
    /\ bvRows' = IF bv.validationId # 0
                 THEN SetBvStatus(bvRows, bv.validationId, "FAILED")
                 ELSE bvRows
    /\ bv' = [bv EXCEPT !.pc = "idle", !.alerts = 1]
    /\ UNCHANGED <<now, bvRest>>

BvInit ==
    /\ bvRows = <<>>
    /\ bv = BvIdle

BvNext ==
    \/ BvStart
    \/ BvRegister
    \/ BvCreateFails
    \/ BvShadowRestore
    \/ BvDecide
    \/ BvChecksumFails
    \/ BvIncident
    \/ BvIncidentFails
    \/ BvCleanup
    \/ BvCleanupFails
    \/ BvCatch

(***************************************************************************)
(* BRUTE FORCE DETECTOR                                                    *)
(***************************************************************************)
\* 15 min, which is two time units of the detector's clock
BF_WINDOW_MS == 2
MAX_FAILS    == 10
\* 30 min
BF_LOCK_MS   == 2 * BF_WINDOW_MS

MaxBfCalls == 12
MaxBfTime  == 7

\* this.entries.get(key) ?? { failures: [], locked: false, lockUntil: 0 }
FreshBfEntry == [present |-> TRUE, failures |-> <<>>, locked |-> FALSE, lockUntil |-> 0]
NoBfEntry    == [FreshBfEntry EXCEPT !.present = FALSE]

\* entry.failures.filter(t => now - t < WINDOW_MS)
BfRecent(failures, t) == SelectSeq(failures, LAMBDA x : t - x < BF_WINDOW_MS)

\* recordFailure with the test failures.length > MAX_FAILS
recordFailure_gt(entry, t) ==
    IF entry.locked /\ t < entry.lockUntil
    THEN [entry |-> entry, locked |-> TRUE, failures |-> Len(entry.failures)]
    ELSE LET failures == Append(BfRecent(IF entry.locked THEN <<>> ELSE entry.failures, t), t)
             locks    == Len(failures) > MAX_FAILS
         IN [entry |-> [present |-> TRUE, failures |-> failures, locked |-> locks,
                        lockUntil |-> IF locks THEN t + BF_LOCK_MS ELSE 0],
             locked |-> locks, failures |-> Len(failures)]

\* recordFailure(key) at time t: the entry it leaves and what it returns
recordFailure(entry, t) ==
    IF entry.locked /\ t < entry.lockUntil
    THEN [entry |-> entry, locked |-> TRUE, failures |-> Len(entry.failures)]
    ELSE LET failures == Append(BfRecent(IF entry.locked THEN <<>> ELSE entry.failures, t), t)
             locks    == Len(failures) >= MAX_FAILS
         IN [entry |-> [present |-> TRUE, failures |-> failures, locked |-> locks,
                        lockUntil |-> IF locks THEN t + BF_LOCK_MS ELSE 0],
             locked |-> locks, failures |-> Len(failures)]

\* isLocked(key): !!e?.locked && Date.now() < e.lockUntil
bfIsLocked(entry, t) == entry.present /\ entry.locked /\ t < entry.lockUntil

\* the lock the history knows of is in force at time t
BfLockInForce(t) == bfLockAt >= 0 /\ t < bfLockAt + BF_LOCK_MS

BfRecordFailure ==
    /\ bfCalls < MaxBfCalls
    /\ LET r == recordFailure(bf, now) IN
       /\ bf' = r.entry
       /\ bfLast' = [op |-> "recordFailure", locked |-> r.locked, failures |-> r.failures]
       /\ bfHist' = IF BfLockInForce(now) THEN bfHist ELSE Append(bfHist, now)
       /\ bfLockAt' = IF BfLockInForce(now) THEN bfLockAt
                      ELSE IF r.locked THEN now ELSE -1
    /\ bfCalls' = bfCalls + 1
    /\ UNCHANGED <<now, bfRest>>

\* recordSuccess(key): this.entries.delete(key)
BfRecordSuccess ==
    /\ bfCalls < MaxBfCalls
    /\ bf' = NoBfEntry
    /\ bfLast' = [op |-> "recordSuccess", locked |-> FALSE, failures |-> 0]
    /\ bfHist' = <<>>
    /\ bfLockAt' = -1
    /\ bfCalls' = bfCalls + 1
    /\ UNCHANGED <<now, bfRest>>

BfTick ==
    /\ now < MaxBfTime
    /\ now' = now + 1
    /\ UNCHANGED <<bfRest, bfVars>>

BfInit ==
    /\ bf = NoBfEntry
    /\ bfLast = [op |-> "none", locked |-> FALSE, failures |-> 0]
    /\ bfHist = <<>>
    /\ bfLockAt = -1
    /\ bfCalls = 0

BfNext ==
    \/ BfRecordFailure
    \/ BfRecordSuccess
    \/ BfTick

(***************************************************************************)
(* REQUEST PIPELINE                                                        *)
(***************************************************************************)
MaxPlRequests == 4
MaxPlTime     == 3

\* the preHandler hooks in the order bootstrap registers them, security first
PreHandlers_securityFirst == <<"securityMiddleware", "safeModeMiddleware">>

\* the preHandler hooks in the order bootstrap registers them
PreHandlers == <<"safeModeMiddleware", "securityMiddleware">>

PlIp      == "10.0.0.1"
PlIpKey   == "ip:10.0.0.1"
PlUsers   == {NULL, Val("u1")}
PlTargets == {PlIp, "u1"}
PlMethods == {"GET", "POST"}
PlUrls    == { <<"/system-mode", "/safe">>, <<"/api", "/sales">> }

PlIdle == [pc |-> "idle", hook |-> 0, method |-> "", url |-> <<>>, userId |-> NULL,
           status |-> 0, trace |-> <<>>]

\* where the chain goes after hook number i called done(): the next hook, or
\* the route handler
AfterHook(i) ==
    IF i < Len(PreHandlers)
    THEN [pc |-> IF PreHandlers[i + 1] = "safeModeMiddleware" THEN "safeMode" ELSE "rateLimit",
          hook |-> i + 1]
    ELSE [pc |-> "handler", hook |-> i]

\* a request enters the preHandler chain
PlArrive ==
    /\ pl.pc = "idle"
    /\ plCount < MaxPlRequests
    /\ \E method \in PlMethods, url \in PlUrls, userId \in PlUsers :
          pl' = [PlIdle EXCEPT !.pc = AfterHook(0).pc, !.hook = AfterHook(0).hook,
                               !.method = method, !.url = url, !.userId = userId]
    /\ plCount' = plCount + 1
    /\ UNCHANGED <<now, plRest, plWindows, plBlocks, plSafe>>

\* safeModeMiddleware: 503, or done()
PlSafeMode ==
    /\ pl.pc = "safeMode"
    /\ \E ok \in BOOLEAN :
          LET a == safeModeMiddleware(pl.method, pl.url, ok, plSafe) IN
          pl' = IF a.handler
                THEN [pl EXCEPT !.pc = AfterHook(pl.hook).pc, !.hook = AfterHook(pl.hook).hook,
                                !.trace = Append(@, "safeMode")]
                ELSE [pl EXCEPT !.pc = "replied", !.status = a.status,
                                !.trace = Append(@, "safeMode")]
    /\ UNCHANGED <<now, plRest, plWindows, plBlocks, plSafe, plCount>>

\* securityMiddleware: rateLimiter.record(`ip:${ip}`, limit), 429 when blocked
PlRateLimit ==
    /\ pl.pc = "rateLimit"
    /\ LET r == record(plWindows, PlIpKey, RateLimit, now) IN
       /\ plWindows' = r.windows
       /\ pl' = IF r.blocked
                THEN [pl EXCEPT !.pc = "replied", !.status = 429, !.trace = Append(@, "rateLimit")]
                ELSE [pl EXCEPT !.pc = "ipBlock", !.trace = Append(@, "rateLimit")]
    /\ UNCHANGED <<now, plRest, plBlocks, plSafe, plCount>>

\* securityMiddleware: ip && await engine.isBlocked(ip), 403 on a hit
PlIpBlock ==
    /\ pl.pc = "ipBlock"
    /\ pl' = IF PlIp \in plBlocks
             THEN [pl EXCEPT !.pc = "replied", !.status = 403, !.trace = Append(@, "ipBlock")]
             ELSE [pl EXCEPT !.pc = "userBlock", !.trace = Append(@, "ipBlock")]
    /\ UNCHANGED <<now, plRest, plWindows, plBlocks, plSafe, plCount>>

\* securityMiddleware: userId && await engine.isBlocked(userId), 403 on a
\* hit, else done()
PlUserBlock ==
    /\ pl.pc = "userBlock"
    /\ pl' = IF pl.userId # NULL /\ pl.userId[1] \in plBlocks
             THEN [pl EXCEPT !.pc = "replied", !.status = 403, !.trace = Append(@, "userBlock")]
             ELSE [pl EXCEPT !.pc = AfterHook(pl.hook).pc, !.hook = AfterHook(pl.hook).hook,
                             !.trace = Append(@, "userBlock")]
    /\ UNCHANGED <<now, plRest, plWindows, plBlocks, plSafe, plCount>>

\* the route handler runs and replies
PlHandler ==
    /\ pl.pc = "handler"
    /\ pl' = [pl EXCEPT !.pc = "replied", !.status = 200, !.trace = Append(@, "handler")]
    /\ UNCHANGED <<now, plRest, plWindows, plBlocks, plSafe, plCount>>

\* the request is over
PlDone ==
    /\ pl.pc = "replied"
    /\ pl' = PlIdle
    /\ UNCHANGED <<now, plRest, plWindows, plBlocks, plSafe, plCount>>

\* between requests: a block is written or lapses, safe mode is switched
PlEnvironment ==
    /\ pl.pc = "idle"
    /\ \E blocks \in SUBSET PlTargets, safe \in BOOLEAN :
          /\ plBlocks' = blocks
          /\ plSafe' = safe
          /\ <<blocks, safe>> # <<plBlocks, plSafe>>
    /\ UNCHANGED <<now, plRest, pl, plWindows, plCount>>

PlTick ==
    /\ now < MaxPlTime
    /\ now' = now + 1
    /\ UNCHANGED <<plRest, plVars>>

PlInit ==
    /\ pl = PlIdle
    /\ plWindows = [k \in RlKeys |-> NoWindow]
    /\ plBlocks = {}
    /\ plSafe = FALSE
    /\ plCount = 0

PlNext ==
    \/ PlArrive
    \/ PlSafeMode
    \/ PlRateLimit
    \/ PlIpBlock
    \/ PlUserBlock
    \/ PlHandler
    \/ PlDone
    \/ PlEnvironment
    \/ PlTick

(***************************************************************************)
(* INVARIANT ENGINE: ONE CYCLE, STEP BY STEP                               *)
(***************************************************************************)
MaxEngCycles == 4

\* the lengths a check's violation list takes in the model
EngCounts == {0, 150}

\* everything the engine and the incident manager leave alone
engFrame == <<cbVars, idemVars, safeVars, retryVars, rlVars, dgVars, rbVars,
              auVars, cronVars, driftVars, hsVars, bvVars, bfVars, plVars, ovVars>>

\* the scheduler's job is the one caller of runAll() here
EngProc == "cron"

NoCheck == [violations |-> 0, autoCorrected |-> FALSE]

EngIdle == [pc |-> "idle", i |-> 0, checked |-> <<>>, cur |-> NoCheck,
            results |-> <<>>, persisted |-> 0]

\* the result of a check that returned
ResultOf(inv, violations, autoCorrected) ==
    [name |-> inv.name, passed |-> violations = 0 \/ autoCorrected,
     violations |-> violations, autoCorrected |-> autoCorrected]

\* the result the outer catch pushes
SyntheticResult(inv) ==
    [name |-> inv.name, passed |-> FALSE, violations |-> 0, autoCorrected |-> FALSE]

\* the rows persistViolations would insert without the slice
persistedRows_all(violations) == violations

\* violations.slice(0, 100).length: the rows persistViolations inserts
persistedRows(violations) == Min(violations, 100)

\* the loop, were it left after its first invariant
EngAdvance_first(e) == [e EXCEPT !.pc = "drift", !.cur = NoCheck]

\* the next invariant of the loop, or the end of the loop
EngAdvance(e) ==
    IF e.i < Len(INVARIANTS)
    THEN [e EXCEPT !.pc = "check", !.i = e.i + 1, !.cur = NoCheck]
    ELSE [e EXCEPT !.pc = "drift", !.cur = NoCheck]

RECURSIVE SumDeductionsOf(_)
\* the loop of computeDriftScore over the result list of a cycle
SumDeductionsOf(results) ==
    IF results = <<>>
    THEN 0
    ELSE (IF ~Head(results).passed
          THEN deductionOf(Head(results).name, Head(results).violations)
          ELSE 0) + SumDeductionsOf(Tail(results))

\* computeDriftScore(results) for the result list of a cycle
driftScoreOf(results) == Max(0, MathRound(100 * Scale - SumDeductionsOf(results)))

\* INVARIANTS.find(i => i.name === r.name).priority
PriorityOf(name) ==
    (CHOOSE k \in 1..Len(INVARIANTS) : INVARIANTS[k].name = name)

\* the results runAll() hands to createOrUpdateFromInvariant, one after the other
FailedOf(results) ==
    LET failed == Failed(results)
    IN [k \in 1..Len(failed) |->
          [name |-> failed[k].name, priority |-> INVARIANTS[PriorityOf(failed[k].name)].priority,
           passed |-> failed[k].passed, autoCorrected |-> failed[k].autoCorrected]]

\* runAll() is called
EngStart ==
    /\ eng.pc = "idle"
    /\ incProc[EngProc].pc = "idle"
    /\ engCycles < MaxEngCycles
    /\ eng' = [EngIdle EXCEPT !.pc = "check", !.i = 1]
    /\ engCycles' = engCycles + 1
    /\ UNCHANGED <<now, engRest, driftRow>>

\* inv.check(prisma) returns its violations
EngCheck ==
    /\ eng.pc = "check"
    /\ \E n \in EngCounts :
         eng' = [eng EXCEPT !.checked = Append(@, INVARIANTS[eng.i].name),
                            !.cur = [violations |-> n, autoCorrected |-> FALSE],
                            !.pc = IF n > 0 /\ INVARIANTS[eng.i].safeToAutoCorrect
                                   THEN "correct" ELSE "push"]
    /\ UNCHANGED <<now, engRest, driftRow, engCycles>>

\* inv.check(prisma) throws: the outer catch pushes the synthetic result
EngCheckThrows ==
    /\ eng.pc = "check"
    /\ eng' = EngAdvance([eng EXCEPT !.checked = Append(@, INVARIANTS[eng.i].name),
                                     !.results = Append(@, SyntheticResult(INVARIANTS[eng.i]))])
    /\ UNCHANGED <<now, engRest, driftRow, engCycles>>

\* inv.autoCorrect(prisma, violations) returns
EngAutoCorrect ==
    /\ eng.pc = "correct"
    /\ eng' = [eng EXCEPT !.cur.autoCorrected = TRUE, !.pc = "push"]
    /\ UNCHANGED <<now, engRest, driftRow, engCycles>>

\* inv.autoCorrect(prisma, violations) throws: the inner catch logs
EngAutoCorrectFails ==
    /\ eng.pc = "correct"
    /\ eng' = [eng EXCEPT !.pc = "push"]
    /\ UNCHANGED <<now, engRest, driftRow, engCycles>>

\* results.push(result), and whether persistViolations is called
EngPush ==
    /\ eng.pc = "push"
    /\ LET pushed == [eng EXCEPT !.results =
                         Append(@, ResultOf(INVARIANTS[eng.i], eng.cur.violations,
                                            eng.cur.autoCorrected))]
       IN eng' = IF eng.cur.violations > 0
                 THEN [pushed EXCEPT !.pc = "persist"]
                 ELSE EngAdvance(pushed)
    /\ UNCHANGED <<now, engRest, driftRow, engCycles>>

\* persistViolations inserts its rows
EngPersist ==
    /\ eng.pc = "persist"
    /\ eng' = EngAdvance([eng EXCEPT !.persisted = @ + persistedRows(eng.cur.violations)])
    /\ UNCHANGED <<now, engRest, driftRow, engCycles>>

\* an INSERT of persistViolations throws (here the first): the outer catch
\* pushes the synthetic result
EngPersistFails ==
    /\ eng.pc = "persist"
    /\ eng' = EngAdvance([eng EXCEPT !.results = Append(@, SyntheticResult(INVARIANTS[eng.i]))])
    /\ UNCHANGED <<now, engRest, driftRow, engCycles>>

\* computeDriftScore, the INSERT INTO drift_scores, and the failed results go
\* to createOrUpdateFromInvariant one after the other
EngDrift ==
    /\ eng.pc = "drift"
    /\ driftRow' = Val([score |-> driftScoreOf(eng.results), cycle |-> engCycles])
    /\ eng' = [eng EXCEPT !.pc = "incidents"]
    /\ incProc' = [incProc EXCEPT ![EngProc] =
                      IncReturn([IncIdle EXCEPT !.pending = FailedOf(eng.results)])]
    /\ UNCHANGED <<now, engFrame, incidents, incOps, incCycle, alerts, engCycles>>

\* the INSERT INTO drift_scores throws: runAll() rejects
EngDriftFails ==
    /\ eng.pc = "drift"
    /\ eng' = EngIdle
    /\ UNCHANGED <<now, engRest, driftRow, engCycles>>

\* the loop over the failed results is over: runAll() returns
EngReturn ==
    /\ eng.pc = "incidents"
    /\ incProc[EngProc].pc = "idle"
    /\ eng' = EngIdle
    /\ UNCHANGED <<now, engRest, driftRow, engCycles>>

EngInit ==
    /\ eng = EngIdle
    /\ driftRow = NULL
    /\ engCycles = 0

CycleNext ==
    \/ EngStart
    \/ EngCheck
    \/ EngCheckThrows
    \/ EngAutoCorrect
    \/ EngAutoCorrectFails
    \/ EngPush
    \/ EngPersist
    \/ EngPersistFails
    \/ EngDrift
    \/ EngDriftFails
    \/ EngReturn
    \/ IncCouSelect(EngProc)
    \/ IncCreate(EngProc)
    \/ IncHealUpdate(EngProc)
    \/ IncHealSelect(EngProc)
    \/ IncEscSelect(EngProc)
    \/ IncEscUpdate(EngProc)
    \/ IncTick

(***************************************************************************)
(* OVERLOAD PREDICTOR                                                      *)
(***************************************************************************)
\* the signals of a call: latencies in ms, saturation in percent, the error
\* rate in thousandths, memory growth in MB/min
OverloadSignals ==
    [p95Latency : {100, 150, 151, 200, 201}, latencyBaseline : {100, 134},
     saturationPct : {70, 71, 85, 86}, errorRate : {10, 11, 50, 51},
     memGrowthMbMin : {10, 11}]

\* the four additions to score, in the order of the code
latencyPoints(opts) ==
    IF opts.p95Latency > opts.latencyBaseline * 2 THEN 30
    ELSE IF 2 * opts.p95Latency > opts.latencyBaseline * 3 THEN 15
    ELSE 0

saturationPoints(opts) ==
    IF opts.saturationPct > 85 THEN 35
    ELSE IF opts.saturationPct > 70 THEN 15
    ELSE 0

errorPoints(opts) ==
    IF opts.errorRate > 50 THEN 30
    ELSE IF opts.errorRate > 10 THEN 15
    ELSE 0

memoryPoints(opts) == IF opts.memGrowthMbMin > 10 THEN 20 ELSE 0

riskOf(score) ==
    IF score >= 70 THEN "CRITICAL"
    ELSE IF score >= 45 THEN "HIGH"
    ELSE IF score >= 20 THEN "MEDIUM"
    ELSE "LOW"

\* predictOverloadRisk(opts): {risk, score}
predictOverloadRisk(opts) ==
    LET score == latencyPoints(opts) + saturationPoints(opts)
                    + errorPoints(opts) + memoryPoints(opts)
    IN [risk |-> riskOf(score), score |-> score]

\* predictOverloadRisk is called with some signals (the model follows one call)
OvPredict ==
    /\ ovCall = NULL
    /\ \E opts \in OverloadSignals :
          ovCall' = Val([opts |-> opts, ret |-> predictOverloadRisk(opts)])
    /\ UNCHANGED <<now, ovRest>>

OvInit == ovCall = NULL

OvNext == OvPredict

Init ==
    /\ now = 0
    /\ alerts = {}
    /\ SafeInit
    /\ CbInit
    /\ IdemInit
    /\ IncInit
    /\ OvInit
    /\ EngInit
    /\ PlInit
    /\ BfInit
    /\ BvInit
    /\ HsInit
    /\ DriftInit
    /\ CronInit
    /\ AuditInit
    /\ RbInit
    /\ DgInit
    /\ RlInit
    /\ RetryInit

SpecCB == Init /\ [][CbNext]_vars

SpecIdem == Init /\ [][IdemNext]_vars

SpecIdemSolo == Init /\ [][IdemSoloNext]_vars

SpecInc == Init /\ [][IncNext]_vars

SpecEngine == Init /\ [][EngineNext]_vars

SpecSafe == Init /\ [][SafeNext]_vars

SpecOverload == Init /\ [][OvNext]_vars

SpecCycle == Init /\ [][CycleNext]_vars

SpecPipeline == Init /\ [][PlNext]_vars

SpecBrute == Init /\ [][BfNext]_vars

SpecBackup == Init /\ [][BvNext]_vars

SpecHealth == Init /\ [][HsNext]_vars

SpecDrift == Init /\ [][DriftNext]_vars

SpecCron == Init /\ [][CronNext]_vars

SpecAudit == Init /\ [][AuditNext]_vars

SpecRollback == Init /\ [][RbNext]_vars

SpecGates == Init /\ [][DgNext]_vars

SpecRl == Init /\ [][RlNext]_vars

SpecRetry == Init /\ [][RetryNext]_vars

\* The registry under fair scheduling: the clock advances, timers fire and
\* database statements complete; fn itself may never settle, and nobody is
\* obliged to call execute, registerTransaction or cleanup.
SpecIdemFair ==
    /\ Init
    /\ [][IdemNext]_vars
    /\ WF_vars(IdemTick)
    /\ \A c \in IdemCallers :
          /\ WF_vars(ExecSelect(c))
          /\ WF_vars(ExecWake(c))
          /\ WF_vars(ExecInsert(c))
          /\ WF_vars(ExecUpdate(c))
          /\ WF_vars(ExecDelete(c))

\* a step in which some caller attempted call()
CbAttempt == cbLast'.flip # cbLast.flip /\ cbLast'.kind \in {"rejected", "forwarded"}
\* a step in which fn was invoked by some caller
CbInvoked == \E c \in CbCallers : cbCalls[c] = "idle" /\ cbCalls'[c] = "infn"
\* a step in which an awaited fn() completed
CbCompleted(kind) == cbLast'.flip # cbLast.flip /\ cbLast'.kind = kind

(***************************************************************************)
(* CLAIMS: safe mode                                                       *)
(***************************************************************************)
\* a request enters the middleware in this step
GateStep == gate = NoRequest /\ gate' # NoRequest

\* the request is a write outside the safe-mode control prefix
GatedWrite(r) ==
    /\ r.method \in {"POST", "PUT", "PATCH", "DELETE"}
    /\ ~StartsWith(r.url, <<"/system-mode">>)

\* C9: while safe mode is enabled, every POST, PUT, PATCH or DELETE request
\* whose path does not begin with the safe-mode control prefix is answered
\* 503 SERVICE_IN_SAFE_MODE with readOnly:true and never reaches the handler;
\* if the safe-mode lookup itself fails the request is answered 503 as well;
\* requests with other methods pass the gate.
C9_SafeMode_Gate ==
    [][GateStep =>
        /\ (GatedWrite(gate') /\ gate'.lookupOk /\ systemMode.safe_mode) =>
              /\ gate'.answer.status = 503
              /\ gate'.answer.error = "SERVICE_IN_SAFE_MODE"
              /\ gate'.answer.readOnly
              /\ ~gate'.answer.handler
        /\ (GatedWrite(gate') /\ ~gate'.lookupOk) =>
              /\ gate'.answer.status = 503
              /\ ~gate'.answer.handler
        /\ gate'.method \notin {"POST", "PUT", "PATCH", "DELETE"} =>
              /\ gate'.answer.handler
              /\ gate'.answer.status = 0
      ]_vars

\* a DELETE outside the control prefix was refused while safe mode is on
C9_Witness ==
    /\ systemMode.safe_mode
    /\ gate.method = "DELETE"
    /\ gate.url = <<"/api", "/system-mode">>
    /\ gate.lookupOk
    /\ gate.answer.error = "SERVICE_IN_SAFE_MODE"

\* compute() has returned a score below 40 that it computed with safe mode
\* off, and nobody has written system_mode since its own UPDATE
HcEngaged ==
    /\ hc.pc = "returned"
    /\ hc.score < 40
    /\ ~hc.safeMode
    /\ ~hc.overwritten

\* C10: whenever compute() produces a score below 40 while safe mode is off,
\* safe mode is enabled by the time that compute returns, with a reason
\* beginning "Health score F", so that a subsequent write request is refused
\* with 503.
C10_AutoEngage ==
    /\ [](HcEngaged =>
            /\ systemMode.safe_mode
            /\ systemMode.safe_mode_reason # NULL
            /\ StartsWith(systemMode.safe_mode_reason[1], <<"Health score F">>))
    /\ [][(HcEngaged /\ GateStep /\ GatedWrite(gate')) =>
            /\ gate'.answer.status = 503
            /\ ~gate'.answer.handler
          ]_vars

\* compute() returned 39 with safe mode engaged by it, and a later POST got 503
C10_Witness ==
    /\ HcEngaged
    /\ hc.score = 39
    /\ lastHealth = Val([score |-> 39, components |-> hc.components[1], safe_mode |-> FALSE])
    /\ systemMode.enabled_by = Val("system")
    /\ gate.method = "POST"
    /\ gate.answer.error = "SERVICE_IN_SAFE_MODE"

(***************************************************************************)
(* CLAIMS: incident manager                                                *)
(***************************************************************************)
IncIds == 1..Len(incidents)

\* C2: no step of an engine cycle or of an incident-manager call moves the
\* status of an incident backward in the order OPEN, AUTO_HEALING, ESCALATED,
\* RESOLVED, CLOSED.
C2_Status_Never_Goes_Back ==
    [][\A i \in IncIds :
         StatusRank(incidents'[i].status) >= StatusRank(incidents[i].status)]_vars

\* C3: once an incident is RESOLVED or CLOSED no incident-manager operation
\* changes its status, resolved_at, resolved_reason or auto_healed.
C3_Terminal_Is_Sticky ==
    [][\A i \in IncIds :
         incidents[i].status \in {"RESOLVED", "CLOSED"} =>
             /\ incidents'[i].status = incidents[i].status
             /\ incidents'[i].resolved_at = incidents[i].resolved_at
             /\ incidents'[i].resolved_reason = incidents[i].resolved_reason
             /\ incidents'[i].auto_healed = incidents[i].auto_healed]_vars

\* C4: on an incident that only escalate has acted on (no heal attempt, not
\* resolved), escalated_at, once set by the first escalate, is not
\* overwritten by another escalate, whatever the interleaving.
C4_First_Escalation_Wins ==
    [][\A i \in IncIds :
         (/\ incidents[i].escalated_at # NULL
          /\ incidents'[i].auto_heal_attempts = 0
          /\ incidents'[i].resolved_at = NULL)
         => /\ incidents'[i].escalated_at = incidents[i].escalated_at
            /\ incidents'[i].status = "ESCALATED"]_vars

(***************************************************************************)
(* CLAIMS: idempotency registry                                            *)
(***************************************************************************)
IdemReturned(c) == idemProc[c].pc = "done"

\* C1: while no fn has failed and no record has expired, concurrent
\* execute(k, fn) calls invoke fn exactly once: at most one caller returns
\* cached=false, every cached=true return carries the status code and body of
\* that single invocation, and once all callers are back the row is unlocked
\* with its response_body set.
C1_Execute_Calls_Fn_Once ==
    (fnFailures = 0 /\ now < ttlSeconds) =>
        /\ fnCalls <= 1
        /\ Cardinality({c \in IdemCallers :
               IdemReturned(c) /\ ~idemProc[c].ret[1].cached}) <= 1
        /\ \A c \in IdemCallers :
               (IdemReturned(c) /\ idemProc[c].ret[1].cached) =>
                   /\ idemProc[c].ret[1].body = Val(1)
                   /\ idemProc[c].ret[1].statusCode = Val(FnStatusCode)
        /\ (fnCalls >= 1 /\ \A c \in IdemCallers : idemProc[c].pc \in {"idle", "done"}) =>
               \A k \in IdemKeys :
                   /\ idemRows[k].present
                   /\ ~idemRows[k].locked
                   /\ idemRows[k].response_body # NULL

(***************************************************************************)
(* CLAIMS: circuit breaker                                                 *)
(***************************************************************************)
\* C5 as stated: once failureThreshold failures have completed in CLOSED the
\* breaker is OPEN (successes in between notwithstanding), and inside the
\* reset timeout every call attempt on the OPEN breaker is rejected without
\* invoking fn.
C5_AsStated ==
    /\ [](cb.state = "CLOSED" => closedFailures < failureThreshold)
    /\ [][(CbAttempt /\ cb.state = "OPEN"
             /\ now - cb.lastStateChange <= resetTimeoutMs)
          => (cbLast'.kind = "rejected" /\ ~CbInvoked /\ cb' = cb)]_vars

\* C5 amended: after failureThreshold failures with no success completing in
\* between, the breaker is OPEN; while it is OPEN with
\* now - lastChange <= resetTimeout every call attempt, starting with the very
\* next one, is rejected and fn is not invoked.
C5_Breaker_Opens_And_Rejects ==
    /\ [](cb.state = "CLOSED" => failStreak < failureThreshold)
    /\ [][(CbAttempt /\ cb.state = "OPEN"
             /\ now - cb.lastStateChange <= resetTimeoutMs)
          => (cbLast'.kind = "rejected" /\ ~CbInvoked /\ cb' = cb)]_vars

C5_Witness ==
    /\ cb.state = "OPEN"
    /\ cbLast.kind = "rejected"
    /\ failStreak >= failureThreshold
    /\ now - cb.lastStateChange <= resetTimeoutMs

\* C6: a forwarded call that fails while the breaker is HALF_OPEN puts the
\* breaker back to OPEN, whatever preceded it in the episode.
C6_HalfOpen_Failure_Reopens ==
    [][(CbCompleted("failure") /\ cb.state = "HALF_OPEN")
       => cb'.state = "OPEN"]_vars

\* C7: the breaker goes HALF_OPEN -> CLOSED when, and only when, halfOpenProbes
\* calls have succeeded since HALF_OPEN was last entered with no failure in
\* between.
C7_Closes_Iff_Probes_This_Episode ==
    /\ [](cb.state = "HALF_OPEN" => probeStreak < halfOpenProbes)
    /\ [][(cb.state = "HALF_OPEN" /\ cb'.state = "CLOSED")
          => probeStreak' >= halfOpenProbes]_vars

\* C8: a call attempted on the OPEN breaker after more than resetTimeout is
\* forwarded to fn and moves the breaker to HALF_OPEN; the breaker leaves
\* OPEN in no other step.
C8_Open_Leaves_Only_By_Late_Call ==
    [][ /\ (CbAttempt /\ cb.state = "OPEN"
             /\ now - cb.lastStateChange > resetTimeoutMs)
           => (cbLast'.kind = "forwarded" /\ CbInvoked
               /\ cb'.state = "HALF_OPEN")
        /\ (cb.state = "OPEN" /\ cb'.state # "OPEN")
           => (CbAttempt /\ cbLast'.kind = "forwarded"
               /\ now - cb.lastStateChange > resetTimeoutMs
               /\ cb'.state = "HALF_OPEN") ]_vars

C8_Witness ==
    /\ cb.state = "HALF_OPEN"
    /\ cbLast.kind = "forwarded"
    /\ cb.lastStateChange = now
    /\ \E c \in CbCallers : cbCalls[c] = "infn"

(***************************************************************************)
(* CLAIMS: disabling safe mode                                             *)
(***************************************************************************)
\* disableSafeMode has run its SELECT and its token test in this step
DisTested == dis.pc \in {"idle", "refused", "disabled"} /\ dis'.pc \in {"refused", "update"}

\* C11: disableSafeMode(overrideToken, _) turns safe mode off and reports
\* success if and only if the supplied token equals the stored override token;
\* when the tokens do not match (including when the caller supplies no token)
\* the disable is refused and the safe-mode row is left unchanged.
C11_Disable_Iff_Token_Matches ==
    [][/\ DisTested =>
            /\ (dis'.pc = "update") <=>
                   (dis'.token # NULL /\ dis'.token = systemMode.override_token)
            /\ systemMode' = systemMode
       /\ (dis.pc = "update" /\ dis'.pc = "disabled") => ~systemMode'.safe_mode
      ]_vars

(***************************************************************************)
(* CLAIMS: retries                                                         *)
(***************************************************************************)
\* an error whose code or message says deadlock, serialization failure or
\* lock timeout
DeadlockClass(err) ==
    /\ err.cls \in {"PrismaClientKnownRequestError", "Error"}
    /\ \/ err.code = "P2034"
       \/ \E i \in 1..Len(err.message) :
            err.message[i] \in {"deadlock detected", "could not serialize", "lock timeout"}

\* an error whose code or message says connection refused, timeout or reset
TransportClass(err) ==
    /\ err.cls \in {"PrismaClientKnownRequestError", "Error"}
    /\ \/ err.code \in {"P1001", "P1002", "P1008", "P1017"}
       \/ \E i \in 1..Len(err.message) :
            err.message[i] \in {"ECONNREFUSED", "ETIMEDOUT", "socket hang up"}

\* C12: withDeadlockRetry(fn) ends after at most 5 invocations of fn; it
\* returns fn's value on the first success, retries only after a deadlock /
\* serialization-failure / lock-timeout error, and when fn fails k < 5 times
\* with such errors and then succeeds the value is returned,
\* db.deadlock_retry.count has grown by exactly k and nothing is thrown.
C12_Deadlock_Retry ==
    /\ dl.calls <= 5
    /\ dl.pc = "sleeping" => DeadlockClass(dl.err)
    /\ dl.pc = "returned" =>
          /\ dl.value = Val("fn value")
          /\ retryMetrics.count = dl.calls - 1
    /\ dl.pc = "threw" => (~DeadlockClass(dl.err) \/ dl.calls = 5)

\* C13: a failure that is not deadlock-class in withDeadlockRetry, and one that
\* is not transport-level in withNetworkRetry (the breaker-open rejection
\* included), is rethrown as it is with no further invocation of fn;
\* withNetworkRetry makes at most 4 attempts.
C13_NonRetryable_Propagates ==
    /\ [](nr.attempt <= 4 /\ nr.calls <= 4)
    /\ [][/\ (dl.pc = "infn" /\ dl'.pc # "infn" /\ dl'.pc # "returned"
                /\ ~DeadlockClass(dl'.err)) => dl'.pc = "threw"
          /\ (nr.pc \in {"call", "infn"} /\ nr'.pc \in {"sleeping", "threw"}
                /\ (~TransportClass(nr'.err) \/ nr'.err = BreakerOpenError)) => nr'.pc = "threw"
          /\ dl.pc = "threw" => dl' = dl
          /\ nr.pc = "threw" => nr' = nr
         ]_vars

\* the breaker rejected the second attempt of withNetworkRetry and the
\* rejection was rethrown; withDeadlockRetry rethrew a validation error at once
C13_Witness ==
    /\ nr.pc = "threw"
    /\ nr.err = BreakerOpenError
    /\ nr.attempt = 2
    /\ nr.calls = 1
    /\ dl.pc = "threw"
    /\ dl.err = PlainError(<<"validation failed">>)
    /\ dl.calls = 1

(***************************************************************************)
(* CLAIMS: rate limiter                                                    *)
(***************************************************************************)
\* the requests of key that were recorded at a time in [from, from + WINDOW_MS)
RecordedIn(key, from) ==
    {i \in DOMAIN rlHist[key] : from <= rlHist[key][i] /\ rlHist[key][i] < from + WINDOW_MS}

\* C14: for every key and every sequence of record(key, limit) calls, the
\* number of request timestamps recorded for the key within any 60 s window
\* never exceeds limit + 1 before a block takes effect.
C14_Window_Count_Bounded ==
    \A key \in RlKeys :
        /\ \A from \in 0..now : Cardinality(RecordedIn(key, from)) <= RateLimit + 1
        /\ Len(rlWindows[key].timestamps) <= RateLimit + 1

\* limit + 1 requests were recorded in one window and the key is blocked
C14_Witness ==
    \E key \in RlKeys :
        /\ Cardinality(RecordedIn(key, now - 1)) = RateLimit + 1
        /\ rlWindows[key].blocked
        /\ rlLast.blocked

\* record() has run in this step
RlRecorded == rlLast'.calls = rlLast.calls + 1

\* the key is inside the 5 minutes that follow its last breach
InBlock(key) == rlBreach[key] >= 0 /\ now < rlBreach[key] + BLOCK_MS

\* C15: the request that makes a key's in-window count exceed limit, and every
\* further request for that key until 5 minutes after that breach, is reported
\* blocked and (while blocked) is not appended to the window; the first request
\* after the block expires is admitted and counted in a fresh, empty window.
C15_Block_Five_Minutes ==
    [][RlRecorded =>
        LET key == rlLast'.key
            inWindow == {i \in DOMAIN rlHist[key] : now - rlHist[key][i] < WINDOW_MS}
        IN
        /\ InBlock(key) =>
              /\ rlLast'.blocked
              /\ rlHist'[key] = rlHist[key]
              /\ rlWindows'[key] = rlWindows[key]
        /\ (~InBlock(key) /\ Cardinality(inWindow) + 1 > RateLimit) =>
              /\ rlLast'.blocked
              /\ rlBreach'[key] = now
        /\ (rlBreach[key] >= 0 /\ now >= rlBreach[key] + BLOCK_MS
              /\ rlHist[key][Len(rlHist[key])] = rlBreach[key]) =>
              /\ ~rlLast'.blocked
              /\ rlLast'.count = 1
              /\ rlWindows'[key].timestamps = <<now>>
              /\ rlHist'[key] = Append(rlHist[key], now)
      ]_vars

\* a request was blocked without being the breach, and later the first request
\* after the block was admitted into a fresh window
C15_Witness ==
    \E key \in RlKeys :
        /\ rlBreach[key] >= 0
        /\ now >= rlBreach[key] + BLOCK_MS
        /\ rlLast.calls = RateLimit + 3
        /\ Len(rlHist[key]) = RateLimit + 2
        /\ ~rlLast.blocked
        /\ rlLast.count = 1
        /\ rlWindows[key].timestamps = <<now>>

(***************************************************************************)
(* CLAIMS: deployment gates                                                *)
(***************************************************************************)
\* the positions of the gates of this evaluation that failed and block
DgFailed == {i \in DOMAIN dg.gates : ~dg.gates[i].passed /\ dg.gates[i].blocking}

\* C16: runDeploymentGates persists exactly one DeploymentGateRun row per
\* evaluation, with passed = (no blocking gate failed) and blockers = the
\* failed blocking gates, before returning or raising; it emits a CRITICAL
\* alert and raises the terminal error if and only if at least one blocker
\* failed; a gate that throws is counted as a failed blocking gate; no state
\* other than the gate log and the alert is changed.
C16_Gate_Run_Persisted ==
    /\ [](/\ dg.pc = "persist" => Len(dgLog) = dg.runs - 1
          /\ dg.pc \in {"alert", "returned", "threw"} =>
                /\ Len(dgLog) = dg.runs
                /\ dgLog[Len(dgLog)].gates = dg.gates
                /\ dgLog[Len(dgLog)].passed = (DgFailed = {})
                /\ Len(dgLog[Len(dgLog)].blockers) = Cardinality(DgFailed)
                /\ \A i \in DgFailed :
                     \E j \in DOMAIN dgLog[Len(dgLog)].blockers :
                        dgLog[Len(dgLog)].blockers[j] = dg.gates[i]
          /\ dg.pc = "returned" => (DgFailed = {} /\ ~dg.alerted)
          /\ dg.pc = "threw" =>
                /\ DgFailed # {}
                /\ dg.alerted
                /\ [severity |-> "CRITICAL", kind |-> "deployment_blocked"] \in alerts
          /\ dg.pc = "alert" => DgFailed # {}
          /\ \A i \in DOMAIN dg.gates :
                dg.gates[i].detail = "Check error" => i \in DgFailed)
    /\ [][dg' # dg => UNCHANGED <<cbVars, idemVars, incVars, safeVars, retryVars, rlVars>>]_vars

\* after a run that passed, a run with one open P1 incident and everything
\* else healthy was persisted as failed, alerted and raised
C16_Witness ==
    /\ dg.pc = "threw"
    /\ Len(dgLog) = 2
    /\ dgLog[1].passed
    /\ ~dgLog[2].passed
    /\ Len(dgLog[2].gates) = 6
    /\ dgLog[2].blockers = <<gateNoOpenP1(1)>>
    /\ [severity |-> "CRITICAL", kind |-> "deployment_blocked"] \in alerts

(***************************************************************************)
(* CLAIMS: auto-rollback watcher                                           *)
(***************************************************************************)
\* check() call i stops the watcher and invokes rollbackFn in this step
RbRollsBack(i) == rbChk[i].pc = "rollback" /\ rbChk'[i].pc = "done"

\* C17: the rollback function is invoked only after spike conditions have been
\* observed at every check from a first spike until the end of the 60 s window;
\* at that point the watcher, in this order, emits a CRITICAL alert, opens a P1
\* incident, stops itself and invokes rollback; if any check before the
\* window's end finds the conditions cleared, the window is reset and no
\* rollback results from the earlier spike.
C17_Rollback_After_Sustained_Spike ==
    [][/\ \A i \in RbChecks :
            /\ RbRollsBack(i) =>
                  /\ \E first \in 1..rbChk[i].obs :
                        /\ rbChk[i].obs - first >= RollbackWindow
                        /\ \A k \in first..rbChk[i].obs : rbObs[k]
                  /\ rbChk[i].alerted
                  /\ [severity |-> "CRITICAL", kind |-> "auto_rollback"] \in alerts
                  /\ rbChk[i].incident \in DOMAIN incidents
                  /\ incidents[rbChk[i].incident].priority = "P1"
                  /\ ~rb'.running
                  /\ rb'.rollbacks = rb.rollbacks + 1
            /\ (rbChk[i].pc = "incident" /\ rbChk'[i].pc = "rollback") =>
                  /\ rbChk[i].alerted
                  /\ Len(incidents') = Len(incidents) + 1
                  /\ rb' = rb
            /\ (rbChk[i].pc = "alert" /\ rbChk'[i].pc = "incident") =>
                  /\ incidents' = incidents
                  /\ rb' = rb
       /\ rb'.rollbacks # rb.rollbacks => \E i \in RbChecks : RbRollsBack(i)
       /\ (Len(rbObs') > Len(rbObs) /\ ~rbObs'[Len(rbObs')]) =>
            /\ rb'.spikeDetectedAt = NULL
            /\ rbChk' = rbChk
      ]_vars

\* a first spike cleared at the next check; a second one lasted and was rolled
\* back
C17_Witness ==
    /\ rb.rollbacks = 1
    /\ ~rb.running
    /\ Len(rbObs) = 6
    /\ rbObs[1]
    /\ ~rbObs[2]
    /\ Len(incidents) = 1

(***************************************************************************)
(* CLAIMS: auto-resolution by the engine                                   *)
(***************************************************************************)
\* C18: if an invariant that has an open (OPEN or AUTO_HEALING) incident is
\* found in a later engine cycle to have been auto-corrected successfully (its
\* result passed with autoCorrected = true), that cycle moves the incident to
\* RESOLVED with auto_healed = true.
C18_Cycle_Resolves_Corrected ==
    \A p \in IncProcs :
        incProc[p].pc = "idle" =>
            \A i \in incCycle[p] :
                /\ incidents[i].status = "RESOLVED"
                /\ incidents[i].auto_healed

(***************************************************************************)
(* C19: every record of idempotency_keys is either locked with             *)
(* response_body NULL, or unlocked with response_body not NULL and a       *)
(* status_code set, in every state reached by interleavings of execute,    *)
(* registerTransaction and cleanup.                                        *)
(***************************************************************************)
C19_Record_Locked_Xor_Completed ==
    \A k \in IdemRowKeys :
        idemRows[k].present =>
            \/ /\ idemRows[k].locked
               /\ idemRows[k].response_body = NULL
            \/ /\ ~idemRows[k].locked
               /\ idemRows[k].response_body # NULL
               /\ idemRows[k].status_code # NULL

\* a completed execute record next to a registered transaction, while another
\* caller still runs fn for the same key
C19_Witness ==
    /\ \E k \in IdemKeys :
          /\ idemRows[k].present
          /\ ~idemRows[k].locked
          /\ idemRows[k].status_code = Val(FnStatusCode)
          /\ \E c \in IdemCallers : idemProc[c].key = k /\ idemProc[c].pc = "infn"
    /\ \E t \in RegisterTimes : idemRows[DupKey(t)].present

\* the step in which caller c leaves the position `from`
ExecLeaves(c, from) ==
    /\ idemProc[c].pc = from
    /\ idemProc'[c].pc # from

\* C20: when fn fails inside execute(key, fn) the catch deletes the record of
\* key and rethrows, the caller gets no return value and no record of key is
\* left to be served; an execute whose SELECT then finds no record of key goes
\* on to the INSERT and invokes fn again, and the call whose fn succeeds stores
\* that result and returns it with cached = false.
C20_Failure_Frees_Key ==
    [][\A c \in IdemCallers :
          LET k == idemProc[c].key IN
          /\ ExecLeaves(c, "infn") =>
                \/ idemProc'[c].pc = "update" /\ idemProc'[c].result # NULL
                \/ idemProc'[c].pc = "delete" /\ idemProc'[c].result = NULL
          /\ ExecLeaves(c, "delete") =>
                /\ idemProc'[c].pc = "threw"
                /\ idemProc'[c].ret = NULL
                /\ ~idemRows'[k].present
                /\ SelectLive(idemRows', k, now') = <<>>
          /\ (ExecLeaves(c, "select") /\ ~idemRows[k].present) =>
                idemProc'[c].pc = "insert"
          /\ ExecLeaves(c, "insert") =>
                /\ idemProc'[c].pc = "infn"
                /\ fnCalls' = fnCalls + 1
          /\ ExecLeaves(c, "update") =>
                /\ idemProc'[c].pc = "done"
                /\ idemProc'[c].ret =
                      Val([cached |-> FALSE,
                           statusCode |-> Val(idemProc[c].result[1].statusCode),
                           body |-> Val(idemProc[c].result[1].body)])
                /\ idemRows[k].present =>
                      /\ idemRows'[k].response_body = Val(idemProc[c].result[1].body)
                      /\ ~idemRows'[k].locked]_vars

\* one caller's fn failed and the caller got the error; the other caller's
\* execute of the same key invoked fn a second time and returned cached = false
C20_Witness ==
    /\ fnFailures = 1
    /\ fnCalls = 2
    /\ \E c, d \in IdemCallers :
          /\ idemProc[c].pc = "threw"
          /\ idemProc[d].pc = "done"
          /\ idemProc[d].key = idemProc[c].key
          /\ ~idemProc[d].ret[1].cached
          /\ idemProc[d].ret[1].body = Val(2)
          /\ idemRows[idemProc[d].key].present
          /\ idemRows[idemProc[d].key].response_body = Val(2)

\* the clock of the model has stopped before the lock that caller c waits on
\* can lapse
LockOutlivesClock(c) ==
    /\ now = MaxIdemTime
    /\ idemRows[idemProc[c].key].present
    /\ idemRows[idemProc[c].key].locked
    /\ idemRows[idemProc[c].key].expires_at > now

ChainIntact(rows) ==
    \A i \in 1..Len(rows) :
        rows[i].prev_hash = (IF i = 1 THEN GENESIS ELSE rows[i - 1].row_hash)

\* the first row, in createdAt order, that does not continue the chain
FirstMismatch(rows) ==
    CHOOSE i \in 1..Len(rows) :
        /\ rows[i].prev_hash # (IF i = 1 THEN GENESIS ELSE rows[i - 1].row_hash)
        /\ \A j \in 1..(i - 1) :
              rows[j].prev_hash = (IF j = 1 THEN GENESIS ELSE rows[j - 1].row_hash)

\* C22: verifyAuditChain accepts the rows it read only if every row's
\* prev_hash equals the previous row's row_hash, with GENESIS required for
\* the first row; otherwise it returns valid = false with brokenAt the id of
\* the first mismatching row.
C22_Verify_Accepts_Only_Intact_Chain ==
    auditVerdict # NULL =>
        LET v == auditVerdict[1] IN
        IF ChainIntact(v.rows)
        THEN v.valid
        ELSE /\ ~v.valid
             /\ v.brokenAt = v.rows[FirstMismatch(v.rows)].id

\* each entry past the first continues the entry before it
ChainContinuous(log) ==
    \A i \in 2..Len(log) : log[i].prev_hash = log[i - 1].row_hash

\* C23: after any sequence of inserts through the chain-hash trigger,
\* concurrent transactions included, every entry past the first has
\* prev_hash equal to the row_hash of the entry before it by created_at, so
\* a log nobody tampered with verifies as valid.
C23_Chain_Continuous ==
    ~auditTampered =>
        /\ ChainContinuous(auditLog)
        /\ auditVerdict # NULL => auditVerdict[1].valid

(***************************************************************************)
(* CLAIMS: cron scheduler                                                  *)
(***************************************************************************)
\* the step in which a run of job j ends in the catch branch
CronJobFailed(j) ==
    /\ cron'[j].errors = cron[j].errors + 1

\* C24: an exception thrown by a scheduled job is caught by the scheduler,
\* recorded in the job's lastError and its error counter, converted into an
\* incident plus an alert, and tears nothing down: the timers stay armed and
\* no other job's record changes.
C24_Job_Exception_Becomes_Incident ==
    [][\A j \in CronJobs :
          CronJobFailed(j) =>
              /\ cron'[j].lastError # NULL
              /\ cronOn' = cronOn
              /\ \A k \in CronJobs \ {j} : cron'[k] = cron[k]
              /\ Len(incidents') = Len(incidents) + 1
              /\ alerts' # alerts]_vars

(***************************************************************************)
(* CLAIMS: drift scorer                                                    *)
(***************************************************************************)
DriftFailed(results) ==
    {n \in DOMAIN results : results[n] # NULL /\ ~results[n][1].passed}

\* the result list without the result of invariant n
DriftWithout(results, n) == [results EXCEPT ![n] = NULL]

ComponentMax ==
    [integrity |-> 30, errorRate |-> 20, latency |-> 15, incidents |-> 20,
     backup |-> 10, migrations |-> 5]

\* C26: every sample compute() persists has score = the sum of its six
\* components, each component is within 0 and its maximum (30, 20, 15, 20,
\* 10, 5), so the score is within 0 and 100, also when component queries fail.
C26_Sample_Is_Sum_Of_Bounded_Components ==
    hsSample # NULL =>
        LET c == hsSample[1].components IN
        /\ DOMAIN c = DOMAIN ComponentMax
        /\ \A k \in DOMAIN c : c[k] \in 0..ComponentMax[k]
        /\ hsSample[1].score =
              c.integrity + c.errorRate + c.latency + c.incidents + c.backup + c.migrations
        /\ hsSample[1].score \in 0..100

\* a sample taken while the drift, incident, backup and migration queries all
\* fail: the fallbacks 20, 15, 5 and 3 are persisted
C26_Witness ==
    /\ hsSample # NULL
    /\ hsSample[1].in.drift = NULL
    /\ hsSample[1].in.summary = NULL
    /\ hsSample[1].in.backupAgeHrs = NULL
    /\ hsSample[1].in.pending = NULL
    /\ hsSample[1].components.integrity = 20
    /\ hsSample[1].components.incidents = 15
    /\ hsSample[1].score = 20 + 20 + 15 + 15 + 5 + 3

(***************************************************************************)
(* CLAIMS: backup validation                                               *)
(***************************************************************************)
\* C27: the status of a backup_validations row that has become PASSED or
\* FAILED never changes to a different status, whatever step of
\* runBackupValidation fails afterwards.
C27_Validation_Status_Is_Final ==
    [][\A i \in 1..Len(bvRows) :
          bvRows[i].status \in {"PASSED", "FAILED"} =>
              bvRows'[i].status = bvRows[i].status]_vars

(***************************************************************************)
(* CLAIMS: brute-force detector                                            *)
(***************************************************************************)
\* the failures of history h that lie within the window ending at t
BfInWindow(h, t) == Len(SelectSeq(h, LAMBDA x : t - x < BF_WINDOW_MS))

BfFailureStep == bfCalls' = bfCalls + 1 /\ bfLast'.op = "recordFailure"
BfSuccessStep == bfCalls' = bfCalls + 1 /\ bfLast'.op = "recordSuccess"

\* C28: the lock engages exactly on the 10th failure recorded within a
\* 15-minute window with no recordSuccess in between; it stays in force for
\* 30 minutes, during which further failures are reported locked and are not
\* recorded; recordSuccess clears the key's entry.
C28_Lock_On_Tenth_Failure ==
    /\ [](BfLockInForce(now) <=> bfIsLocked(bf, now))
    /\ [][/\ (BfFailureStep /\ BfLockInForce(now)) =>
                /\ bfLast'.locked
                /\ bf' = bf
          /\ (BfFailureStep /\ ~BfLockInForce(now)) =>
                /\ bf'.failures[Len(bf'.failures)] = now
                /\ bfLast'.failures = BfInWindow(bfHist', now)
                /\ bfLast'.locked <=> BfInWindow(bfHist', now) >= MAX_FAILS
                /\ bfLast'.locked => BfInWindow(bfHist', now) = MAX_FAILS
          /\ BfSuccessStep =>
                /\ bf' = NoBfEntry
                /\ ~bfIsLocked(bf', now)]_vars

\* a failure reported locked, and not recorded, while the lock engaged by the
\* 10th failure is in force
C28_Witness ==
    /\ BfLockInForce(now)
    /\ now > bfLockAt
    /\ bfLast.op = "recordFailure"
    /\ bfLast.locked
    /\ Len(bf.failures) = MAX_FAILS
    /\ bf.failures[MAX_FAILS] = bfLockAt
    /\ bfCalls > MAX_FAILS

(***************************************************************************)
(* CLAIMS: request pipeline                                                *)
(***************************************************************************)
\* the gates in the order the claim gives them
PipelineOrder == <<"safeMode", "rateLimit", "ipBlock", "userBlock", "handler">>

IsPrefix(s, t) == Len(s) <= Len(t) /\ SubSeq(t, 1, Len(s)) = s

\* the request in the chain comes from a blocked IP or a blocked user
PlBlocked ==
    \/ PlIp \in plBlocks
    \/ pl.userId # NULL /\ pl.userId[1] \in plBlocks

\* C29: the gates apply in the order safe-mode, rate limit, persistent block,
\* handler: a request answered 503 by the safe-mode gate is not counted by the
\* rate limiter, a rate-limited request is answered 429 without a look at the
\* persistent blocks, and a request whose IP or user id is blocked never
\* reaches the handler and is answered 403 once it is past the first two gates.
C29_Pipeline_Order ==
    /\ [](pl.pc # "idle" =>
            /\ IsPrefix(pl.trace, PipelineOrder)
            /\ pl.status = 503 => pl.trace = <<"safeMode">>
            /\ pl.status = 429 => pl.trace = <<"safeMode", "rateLimit">>
            /\ pl.status = 403 => PlBlocked
            /\ PlBlocked =>
                  /\ pl.pc # "handler"
                  /\ pl.status # 200
                  /\ pl.pc = "replied" => pl.status \in {503, 429, 403})
    /\ [][(pl'.status = 503 /\ pl.status = 0) => plWindows' = plWindows]_vars

\* a write that passed the safe-mode gate and the rate limiter is answered 403
\* for its blocked user id
C29_Witness ==
    /\ pl.pc = "replied"
    /\ pl.method = "POST"
    /\ pl.status = 403
    /\ PlIp \notin plBlocks
    /\ pl.trace = <<"safeMode", "rateLimit", "ipBlock", "userBlock">>
    /\ plWindows[PlIpKey].present

\* C30: the token comparison and the clearing of the safe-mode flag are
\* atomic: whatever setSafeModeOverrideToken or enableSafeMode calls are
\* interleaved with a disableSafeMode, the flag is never cleared for a token
\* that the comparison would refuse against the token stored at that moment.
C30_Disable_Compares_And_Clears_Atomically ==
    [][(dis.pc = "update" /\ dis'.pc = "disabled") =>
          ~disableRefused(systemMode.override_token, dis.token)]_vars

(***************************************************************************)
(* CLAIMS: heal attempts and the invariant cycle                           *)
(***************************************************************************)
\* the UPDATE of incrementHealAttempts by caller p
HealIncrements(p) ==
    incProc[p].pc = "inc_update" /\ incProc'[p] # incProc[p]
        => /\ incidents'[incProc[p].id].auto_heal_attempts
                = incidents[incProc[p].id].auto_heal_attempts + 1
           /\ incidents'[incProc[p].id].status = "AUTO_HEALING"

\* the row as incrementHealAttempts reads it back calls for escalation
HealRowDue(p) ==
    \/ incidents[incProc[p].id].auto_heal_attempts >= MAX_AUTO_HEAL_ATTEMPTS
    \/ now - incidents[incProc[p].id].created_at > ESCALATE_AFTER_MS

\* incrementHealAttempts goes on to escalate exactly when the row is due, and
\* otherwise returns with the incident AUTO_HEALING
HealDecides(p) ==
    incProc[p].pc = "inc_select" /\ incProc'[p] # incProc[p]
        => /\ incProc'[p].pc = "esc_select" <=> HealRowDue(p)
           /\ ~HealRowDue(p) => incidents'[incProc[p].id].status = "AUTO_HEALING"

\* escalate returns with the incident ESCALATED
HealEscalates(p) ==
    /\ incProc'[p] # incProc[p]
    /\ \/ incProc[p].pc = "esc_update"
       \/ incProc[p].pc = "esc_select" /\ incProc'[p].pc # "esc_update"
    => incidents'[incProc[p].id].status = "ESCALATED"

\* C31: incrementHealAttempts adds exactly 1 to auto_heal_attempts and sets
\* the status AUTO_HEALING; the call escalates the incident if and only if the
\* attempts it reads back are 3 or more or the incident is older than 15
\* minutes; so between cycles an incident with three heal attempts is ESCALATED.
C31_Heal_Attempt_Escalates ==
    /\ [](eng.pc = "idle"
            => \A i \in IncIds :
                  incidents[i].auto_heal_attempts >= MAX_AUTO_HEAL_ATTEMPTS
                      => incidents[i].status = "ESCALATED")
    /\ [][HealIncrements(EngProc) /\ HealDecides(EngProc) /\ HealEscalates(EngProc)]_vars

\* three recurrences after the creation, within 15 minutes of it
C31_Witness ==
    /\ eng.pc = "idle"
    /\ \E i \in IncIds :
          /\ incidents[i].auto_heal_attempts = MAX_AUTO_HEAL_ATTEMPTS
          /\ incidents[i].status = "ESCALATED"
          /\ now - incidents[i].created_at <= ESCALATE_AFTER_MS
          /\ incidents[i].escalated_at = Val(now)

\* the checks begun in the cycle so far are the first entries of the catalogue
CheckedInOrder ==
    /\ Len(eng.checked) <= Len(INVARIANTS)
    /\ \A k \in 1..Len(eng.checked) : eng.checked[k] = INVARIANTS[k].name

\* the drift score of the cycle in flight is in table drift_scores
DriftPersisted ==
    driftRow = Val([score |-> driftScoreOf(eng.results), cycle |-> engCycles])

\* C32: within a cycle the invariants are checked in registration order, and
\* a row of table incidents is inserted or updated only after every check of
\* the cycle has completed and the drift score of the cycle has been computed
\* and persisted.
C32_Incidents_After_Checks_And_Drift ==
    /\ []CheckedInOrder
    /\ [][incidents' # incidents
            => /\ eng.pc = "incidents"
               /\ Len(eng.checked) = Len(INVARIANTS)
               /\ DriftPersisted]_vars

\* both incidents of a first cycle, made after its drift score
C32_Witness ==
    /\ eng.pc = "incidents"
    /\ incProc[EngProc].pc = "idle"
    /\ engCycles = 1
    /\ DriftPersisted
    /\ Len(incidents) = Len(INVARIANTS)
    /\ \A i \in IncIds : incidents[i].invariant = INVARIANTS[i].name

\* the loop over the catalogue is over
LoopDone == eng.pc \in {"drift", "incidents"}

\* the result list has one result per catalogue entry, in registration order
OneResultEach ==
    /\ Len(eng.results) = Len(INVARIANTS)
    /\ \A k \in 1..Len(INVARIANTS) : eng.results[k].name = INVARIANTS[k].name

\* C33: a cycle yields exactly one result per catalogue invariant, in
\* registration order; a throwing check, a failed auto-correction or a failed
\* violation INSERT neither ends the loop early nor adds a second result for
\* the invariant, and the result of a throwing check is failed with no
\* violations.
C33_One_Result_Per_Invariant ==
    /\ [](LoopDone => OneResultEach)
    /\ [][/\ eng.pc \in {"check", "correct", "push", "persist"} => eng'.pc # "idle"
          /\ eng.pc = "check" /\ Len(eng'.results) > Len(eng.results)
               => eng'.results = Append(eng.results, SyntheticResult(INVARIANTS[eng.i]))]_vars

\* C34 as stated: a cycle persists at most 100 rows of invariant_violations
\* in total.
C34_AsStated == eng.persisted <= 100

\* C34: a cycle persists at most 100 rows of invariant_violations for each
\* invariant it checks, however many violations the check reports; in total
\* at most 100 times the number of invariants checked.
C34_Cap_Is_Per_Invariant ==
    /\ [](eng.persisted <= 100 * Len(eng.checked))
    /\ [][eng'.pc # "idle" => eng'.persisted - eng.persisted \in 0..100]_vars

\* both checks report 150 violations: 100 rows each
C34_Witness ==
    /\ LoopDone
    /\ \A k \in 1..Len(eng.results) : eng.results[k].violations = 150
    /\ eng.persisted = 100 * Len(INVARIANTS)

(***************************************************************************)
(* CLAIMS: cron job counters and shutdown                                  *)
(***************************************************************************)
\* the step in which an invocation of job j ends
CronJobEnded(j) == cron'[j].running = cron[j].running - 1

\* C35: every invocation of a job, successful or failed, increments runCount
\* and sets lastRun; a failed one leaves its message in lastError and a
\* successful one clears lastError.
C35_Every_Invocation_Counts ==
    [][\A j \in CronJobs :
          CronJobEnded(j) =>
              /\ cron'[j].runCount = cron[j].runCount + 1
              /\ cron'[j].lastRun = Val(now)
              /\ IF CronJobFailed(j)
                 THEN cron'[j].lastError = Val("job failed")
                 ELSE cron'[j].lastError = NULL]_vars

\* C39: once stop() has returned no invocation of a job begins: no interval
\* tick and no staggered first run enters run().
C39_No_Invocation_After_Stop ==
    [][~cronOn /\ ~cronOn' => \A j \in CronJobs : cron'[j].fired = cron[j].fired]_vars

(***************************************************************************)
(* CLAIMS: overload predictor                                              *)
(***************************************************************************)
\* C36: the score predictOverloadRisk returns lies within 0..100 whatever the
\* signals, and the band is CRITICAL iff score >= 70, HIGH iff 45 <= score <
\* 70, MEDIUM iff 20 <= score < 45 and LOW otherwise.
C36_Overload_Score_Bounded ==
    ovCall # NULL =>
        LET ret == ovCall[1].ret IN
        /\ ret.score \in 0..100
        /\ ret.risk = "CRITICAL" <=> ret.score >= 70
        /\ ret.risk = "HIGH" <=> ret.score >= 45 /\ ret.score < 70
        /\ ret.risk = "MEDIUM" <=> ret.score >= 20 /\ ret.score < 45
        /\ ret.risk = "LOW" <=> ret.score < 20

(***************************************************************************)
(* CLAIMS: one open incident per invariant                                 *)
(***************************************************************************)
\* the incidents of an invariant that are OPEN, AUTO_HEALING or ESCALATED
NonTerminalFor(name) ==
    {i \in IncIds : /\ incidents[i].invariant = name
                    /\ incidents[i].status \in {"OPEN", "AUTO_HEALING", "ESCALATED"}}

\* C37: at any time each invariant name has at most one incident that is
\* OPEN, AUTO_HEALING or ESCALATED, whatever the interleaving of the
\* createOrUpdateFromInvariant calls of overlapping cycles.
C37_One_Open_Incident_Per_Invariant ==
    \A k \in 1..Len(INVARIANTS) : Cardinality(NonTerminalFor(INVARIANTS[k].name)) <= 1

(***************************************************************************)
(* CLAIMS: rollback at most once                                           *)
(***************************************************************************)
\* the incidents opened by check()
RollbackIncidents == {i \in IncIds : incidents[i].priority = "P1" /\ incidents[i].invariant = ""}

\* C38: a watcher invokes rollbackFn at most once and opens at most one P1
\* rollback incident, also when the alert and incident calls of a check last
\* longer than the check interval.
C38_Rollback_At_Most_Once ==
    /\ rb.rollbacks <= 1
    /\ Cardinality(RollbackIncidents) <= 1

(***************************************************************************)
(* CLAIMS: execute after the record expired                                *)
(***************************************************************************)
\* caller c is alone: nobody else is inside execute, and no fn has failed
ExecAlone(c) ==
    /\ fnFailures = 0
    /\ \A d \in IdemCallers \ {c} : idemProc[d].pc \in {"idle", "done"}

\* fn did not outlast the record: the row of k is there, and if it is the lock
\* row of the execute in flight it has not run out under it
OwnLockLive(k) ==
    /\ idemRows[k].present
    /\ idemRows[k].locked => idemRows[k].expires_at > now

\* C40: a successful execute(key, fn), also one that found the record of key
\* expired (garbage-collected or not), leaves a live, unlocked record of key
\* holding its result, so that the next execute(key, fn) is a cache hit.
C40_Execute_Leaves_Live_Record ==
    [][\A c \in IdemCallers :
          LET k == idemProc[c].key IN
          (ExecLeaves(c, "update") /\ ExecAlone(c) /\ OwnLockLive(k)) =>
              /\ SelectLive(idemRows', k, now) # <<>>
              /\ ~idemRows'[k].locked
              /\ idemRows'[k].response_body = Val(idemProc[c].result[1].body)]_vars

====
